---- MODULE Spec2Model ----
(***************************************************************************)
(* Sync / merge engine of the dashboard backend:                           *)
(*   services/googleSheets.ts  (pull, periodic sweep, remote row pushes)   *)
(*   services/jsonStorage.ts   (Side Store file, merge on read)            *)
(*   routes/tables.ts          (row and table requests)                    *)
(* Every async handler is cut at its awaits: one action performs the       *)
(* awaited operation and the synchronous code that follows it, up to the   *)
(* next await.                                                             *)
(***************************************************************************)
EXTENDS Integers, Sequences, FiniteSets, TLC

\* ---------------------------------------------------------------- bounds
\* Columns a table can have (columns.push is unbounded).
MaxColumns == 3
\* ObjectIds that can be minted (new ObjectId()).
MaxId == 2
\* Rows the remote spreadsheet can hold.
MaxRemoteRows == 2
\* Readings of the wall clock (new Date()).
MaxClock == 2
\* Logical records (spreadsheet records / user-created rows) that can be born.
MaxRec == 2

\* ---------------------------------------------------------------- universe
Tables == {"t1", "t2"}
\* Order in which Table.find enumerates the collection.
TableOrder == <<"t1", "t2">>
NoSheet == "none"
Ticks == {"k1", "k2"}
Reqs == {"q1"}
\* Requests in flight at the same time, where two are let in.
TwoReqs == {"q1", "q2"}
Procs == Ticks \cup TwoReqs
\* Browser sessions that may open a socket.
Clients == {"c1", "c2"}

\* ---------------------------------------------------------------- values
\* JavaScript values a row can hold.
Null == [t |-> "null", n |-> 0, s |-> ""]
Undefined == [t |-> "undefined", n |-> 0, s |-> ""]
NaN == [t |-> "nan", n |-> 0, s |-> ""]
Num(n) == [t |-> "number", n |-> n, s |-> ""]
Str(s) == [t |-> "string", n |-> 0, s |-> s]
Bool(b) == [t |-> "boolean", n |-> IF b THEN 1 ELSE 0, s |-> ""]

\* Numbers whose decimal form the model can parse.
NumRange == 0 .. 9
\* Cell strings the remote can hold.
Cells == {"", "7", "x"}

\* String.prototype.toLowerCase on the cells of the model.
ToLowerCase(c) == IF c = "TRUE" \/ c = "True" THEN "true" ELSE c

\* parseFloat(c): the number c spells, NaN when it spells none.
ParseFloat(c) ==
  IF \E n \in NumRange : ToString(n) = c
    THEN Num(CHOOSE n \in NumRange : ToString(n) = c)
    ELSE NaN

\* Date strings the model knows, with their toISOString().
IsDateString(c) == c = "2024-01-02"
ToISOString(c) == Str("2024-01-02T00:00:00.000Z")

\* The boolean case compares the cell as it is, without toLowerCase().
CoerceCellCaseSensitive(type, c) ==
  CASE type = "date" ->
         IF c = "" THEN Null
         ELSE IF IsDateString(c) THEN ToISOString(c)
         ELSE IF ParseFloat(c) # NaN THEN Str("serial-date")
         ELSE Null
    [] type = "number" -> IF c # "" THEN ParseFloat(c) ELSE Null
    [] type = "boolean" -> IF c # "" THEN Bool(c = "true") ELSE Bool(FALSE)
    [] OTHER -> IF c # "" THEN Str(c) ELSE Str("")

\* The type switch of syncGoogleSheet: cell string -> typed value.
CoerceCell(type, c) ==
  CASE type = "date" ->
         IF c = "" THEN Null
         ELSE IF IsDateString(c) THEN ToISOString(c)
         ELSE IF ParseFloat(c) # NaN THEN Str("serial-date")
         ELSE Null
    [] type = "number" -> IF c # "" THEN ParseFloat(c) ELSE Null
    [] type = "boolean" -> IF c # "" THEN Bool(ToLowerCase(c) = "true") ELSE Bool(FALSE)
    [] OTHER -> IF c # "" THEN Str(c) ELSE Str("")

\* ---------------------------------------------------------------- rows
\* A stored row: its ObjectId, its key/value pairs, and (history only) the
\* logical record it stands for.
MkRow(id, vals, rec) == [_id |-> id, vals |-> vals, rec |-> rec]

\* { ...f, ...g }
Spread(f, g) ==
  [k \in (DOMAIN f) \cup (DOMAIN g) |-> IF k \in DOMAIN g THEN g[k] ELSE f[k]]

EmptyObj == [k \in {} |-> Null]

\* JSON.stringify of one value / one object: undefined members are dropped,
\* NaN is written as null.
JsonVal(v) == IF v = NaN THEN Null ELSE v
JsonObj(f) == [k \in {x \in DOMAIN f : f[x] # Undefined} |-> JsonVal(f[k])]
JsonRow(r) == [_id |-> r._id, vals |-> JsonObj(r.vals)]
JsonRows(rs) == [i \in 1 .. Len(rs) |-> JsonRow(rs[i])]

\* What the database keeps of a row handed to it (BSON: undefined -> null).
BsonObj(f) == [k \in DOMAIN f |-> IF f[k] = Undefined THEN Null ELSE f[k]]
BsonRow(r) == [r EXCEPT !.vals = BsonObj(r.vals)]

\* row[k] as a reader sees it: an absent key reads as null.
ReadKey(f, k) == IF k \in DOMAIN f /\ f[k] # Undefined THEN f[k] ELSE Null

SeqToSet(s) == {s[i] : i \in 1 .. Len(s)}
RemoveAt(s, i) == SubSeq(s, 1, i - 1) \o SubSeq(s, i + 1, Len(s))
RowIds(rs) == {rs[i]._id : i \in 1 .. Len(rs)}
\* findIndex / find by _id (0 when absent; indices are 1-based here).
IndexOfId(rs, id) ==
  IF \E i \in 1 .. Len(rs) : rs[i]._id = id
    THEN CHOOSE i \in 1 .. Len(rs) : rs[i]._id = id /\ \A j \in 1 .. i - 1 : rs[j]._id # id
    ELSE 0

\* ---------------------------------------------------------------- schema
Column(name, type, dash) == [name |-> name, type |-> type, isDashboardOnly |-> dash]
InitColumns == << Column("A", "number", FALSE), Column("N", "text", TRUE) >>

\* table.columns.filter(col => !col.isDashboardOnly)
SheetColumns(cols) == SelectSeq(cols, LAMBDA c : ~c.isDashboardOnly)
ColumnNames(cols) == {cols[i].name : i \in 1 .. Len(cols)}
SheetNames(cols) == ColumnNames(SheetColumns(cols))
DashNames(cols) == ColumnNames(cols) \ SheetNames(cols)

\* ---------------------------------------------------------------- state
VARIABLES
  tables,     \* Row Store: table id -> persisted Table document
  remote,     \* the spreadsheets: sheet id -> header row and data rows
  sideFile,   \* Side Store: storage/dashboard_data.json
  isSyncing,  \* the sweep's in-flight flag
  sheetsIo,   \* googleSheets.ts `io` (set only by setSocketIO)
  sockets,    \* Socket.IO: client -> its connection and the table rooms it is in
  proc,       \* every timer callback / request in flight: its position and locals
  nextId,     \* next ObjectId to mint
  nextRec,    \* next logical record (history)
  clock,      \* readings of the wall clock taken so far
  idOwner,    \* history: ObjectId -> logical record it was minted for (0: none)
  settled,    \* history: table -> a pull completed and nothing changed since
  out         \* what the last step emitted / answered

vars == << tables, remote, sideFile, isSyncing, sheetsIo, sockets, proc, nextId, nextRec,
           clock, idOwner, settled, out >>

\* ---------------------------------------------------------------- documents
MkTable(cols, data, sheet, synced) ==
  [columns |-> cols, data |-> data, googleSheetId |-> sheet, lastSynced |-> synced,
   syncError |-> ""]
NoDoc == MkTable(<< >>, << >>, NoSheet, 0)

NoPayload == [data |-> EmptyObj, flags |-> [k \in {} |-> FALSE]]
NoRow == MkRow(0, EmptyObj, 0)

\* The error syncGoogleSheet throws: its kind and, for the header validation,
\* the names joined into the message.
PullError(kind, names) == [kind |-> kind, names |-> names]
NoError == PullError("none", {})

\* Locals of one handler invocation.
IdleCtx ==
  [pc |-> "idle", kind |-> "none", t |-> "none", doc |-> NoDoc, queue |-> << >>,
   hdr |-> << >>, rows |-> << >>, hasChanged |-> FALSE, ret |-> "none", pullOk |-> TRUE,
   rowId |-> 0, rowIndex |-> 0,
   sheetData |-> EmptyObj, dashData |-> EmptyObj, row |-> NoRow, cells |-> << >>,
   modified |-> FALSE, clean |-> FALSE, rep |-> FALSE,
   body |-> NoPayload,   \* history: the request body the handler was given
   remoteOk |-> TRUE,    \* history: no remote call of the handler has thrown
   err |-> NoError,
   failed |-> {}]        \* history: the tables whose pull threw in this sweep

\* A socket: whether the client is connected and the tables whose room
\* `table-<id>` it has joined.
Socket(connected, rooms) == [connected |-> connected, rooms |-> rooms]
NoSocket == Socket(FALSE, {})

\* ---------------------------------------------------------------- outputs
NoResp == [op |-> "none", status |-> 0, t |-> "none", data |-> << >>, row |-> NoRow, note |-> ""]
Resp(op, status, t, data, note) ==
  [op |-> op, status |-> status, t |-> t, data |-> data, row |-> NoRow, note |-> note]
RowResp(op, t, data, row) ==
  [op |-> op, status |-> 200, t |-> t, data |-> data, row |-> row, note |-> ""]
Event(name, t, data) == [name |-> name, t |-> t, data |-> data]
Out(events, resp, tick) == [events |-> events, resp |-> resp, tick |-> tick]
Quiet == Out(<< >>, NoResp, "none")

\* ---------------------------------------------------------------- Side Store
SideJson(doc) == [kind |-> "json", doc |-> doc]
SideBroken(kind) == [kind |-> kind, doc |-> [t \in Tables |-> [r \in {} |-> EmptyObj]]]
EmptySide == SideJson([t \in Tables |-> [r \in {} |-> EmptyObj]])

\* fs.readFileSync + JSON.parse succeed
SideReadable(file) == file.kind = "json"

\* getDashboardData(tableId): the table's entries, {} when it has none, null
\* when the file cannot be read or parsed.
GetDashboardData(file, t) ==
  IF SideReadable(file) THEN [isNull |-> FALSE, rows |-> file.doc[t]]
  ELSE [isNull |-> TRUE, rows |-> [r \in {} |-> EmptyObj]]

\* The overlay the other way round: the stored row's values win.
MergeRowStoredWins(row, entry) == [row EXCEPT !.vals = Spread(entry, row.vals)]

\* The overlay of mergeDashboardData for one row.
MergeRow(row, entry) == [row EXCEPT !.vals = Spread(row.vals, entry)]

\* An unreadable file yields no rows at all.
MergeDashboardDataEmptyOnNull(file, t, data) ==
  LET tableData == GetDashboardData(file, t) IN
  IF tableData.isNull THEN << >>
  ELSE [i \in 1 .. Len(data) |->
          IF data[i]._id \in DOMAIN tableData.rows
            THEN [data[i] EXCEPT !.vals = Spread(data[i].vals, tableData.rows[data[i]._id])]
            ELSE data[i]]

\* mergeDashboardData(table)
MergeDashboardData(file, t, data) ==
  LET tableData == GetDashboardData(file, t) IN
  IF tableData.isNull THEN data
  ELSE [i \in 1 .. Len(data) |->
          IF data[i]._id \in DOMAIN tableData.rows
            THEN MergeRow(data[i], tableData.rows[data[i]._id])
            ELSE data[i]]

\* The new members are laid over the entry the file has for the row.
SaveDashboardDataMergesKeys(file, t, rowId, data) ==
  SideJson([file.doc EXCEPT ![t] =
     [r \in (DOMAIN file.doc[t]) \cup {rowId} |->
        IF r = rowId
          THEN (IF r \in DOMAIN file.doc[t] THEN Spread(file.doc[t][r], JsonObj(data))
                ELSE JsonObj(data))
          ELSE file.doc[t][r]]])

\* The write starts from an empty object instead of the file's content.
SaveDashboardDataFromScratch(file, t, rowId, data) ==
  SideJson([u \in Tables |->
     [r \in (IF u = t THEN {rowId} ELSE {}) |-> JsonObj(data)]])

\* saveDashboardData(tableId, rowId, data): the file after the write
\* (JSON.stringify drops undefined members).
SaveDashboardData(file, t, rowId, data) ==
  SideJson([file.doc EXCEPT ![t] =
     [r \in (DOMAIN file.doc[t]) \cup {rowId} |->
        IF r = rowId THEN JsonObj(data) ELSE file.doc[t][r]]])

\* deleteDashboardData(tableId, rowId): the file after the write
DeleteDashboardData(file, t, rowId) ==
  SideJson([file.doc EXCEPT ![t] =
     [r \in (DOMAIN file.doc[t]) \ {rowId} |-> file.doc[t][r]]])

\* ---------------------------------------------------------------- remote
MkRemote(headers, rows) == [headers |-> headers, rows |-> rows]
RemoteRow(rec, cells) == [rec |-> rec, cells |-> cells]
Sheets == {"s1"}
HeaderNames == {"A", "Z"}

IndexOf(s, x) == IF \E i \in 1 .. Len(s) : s[i] = x
                   THEN CHOOSE i \in 1 .. Len(s) : s[i] = x ELSE 0

\* row.get(name): the cell under the header loaded by loadHeaderRow
RowGet(hdr, rrow, name) ==
  IF IndexOf(hdr, name) \in 1 .. Len(rrow.cells) THEN rrow.cells[IndexOf(hdr, name)] ELSE ""

\* ---------------------------------------------------------------- pull: the row mapping
\* The type-coerced values of one remote row, for the non-dashboard columns.
RowValues(cols, hdr, rrow) ==
  [name \in SheetNames(cols) |->
     CoerceCell((CHOOSE c \in SeqToSet(cols) : c.name = name).type, RowGet(hdr, rrow, name))]

\* Correlation off by one: the stored row after the one at `index`.
PreservedIdShifted(tdata, index, fresh) ==
  IF index + 1 <= Len(tdata) THEN tdata[index + 1]._id
  ELSE fresh + (IF index > Len(tdata) THEN index - Len(tdata) - 1 ELSE 0)

\* No correlation: every built row gets a new ObjectId.
PreservedIdAlwaysNew(tdata, index, fresh) == fresh + index - 1

\* The id given to the row built from remote row `index` (1-based): that of the
\* stored row at the same index, else a new ObjectId.
PreservedId(tdata, index, fresh) ==
  IF index <= Len(tdata) /\ tdata[index]._id # 0
    THEN tdata[index]._id
    ELSE fresh + (index - Len(tdata)) - 1

\* A stored value that is present is kept; the remote only fills what is missing.
BuildDataKeepsLocal(cols, tdata, hdr, rrows, fresh) ==
  [index \in 1 .. Len(rrows) |->
     MkRow(PreservedId(tdata, index, fresh),
           [name \in SheetNames(cols) |->
              IF index <= Len(tdata) /\ name \in DOMAIN tdata[index].vals
                   /\ tdata[index].vals[name] # Null
                THEN tdata[index].vals[name]
                ELSE RowValues(cols, hdr, rrows[index])[name]],
           rrows[index].rec)]

\* The stored rows beyond the remote's row count are carried over.
BuildDataKeepsExtraRows(cols, tdata, hdr, rrows, fresh) ==
  [index \in 1 .. (IF Len(tdata) > Len(rrows) THEN Len(tdata) ELSE Len(rrows)) |->
     IF index <= Len(rrows)
       THEN MkRow(PreservedId(tdata, index, fresh), RowValues(cols, hdr, rrows[index]),
                  rrows[index].rec)
       ELSE tdata[index]]

\* rows.map(...) of syncGoogleSheet
BuildData(cols, tdata, hdr, rrows, fresh) ==
  [index \in 1 .. Len(rrows) |->
     MkRow(PreservedId(tdata, index, fresh), RowValues(cols, hdr, rrows[index]),
           rrows[index].rec)]

\* ObjectIds minted by one run of the mapping
Minted(tdata, rrows) == IF Len(rrows) > Len(tdata) THEN Len(rrows) - Len(tdata) ELSE 0

\* The comparison finds no difference, whatever the rows are.
HasChangedNever(tdata, data) == FALSE

\* JSON.stringify(table.data) !== JSON.stringify(data)
HasChanged(tdata, data) == JsonRows(tdata) # JsonRows(data)

\* ---------------------------------------------------------------- bookkeeping
QEntry(t, doc, clean, rep) == [t |-> t, doc |-> doc, clean |-> clean, rep |-> rep]

\* History: the snapshots of the tables in D are no longer current.
Stale(c, D) ==
  [c EXCEPT !.clean = IF c.t \in D THEN FALSE ELSE @,
            !.rep = IF c.t \in D THEN FALSE ELSE @,
            !.queue = [i \in 1 .. Len(@) |->
                         IF @[i].t \in D THEN QEntry(@[i].t, @[i].doc, FALSE, FALSE) ELSE @[i]]]

\* Process p moves to ctx; the tables in D were changed by this step.
Move(p, ctx, D) == proc' = [q \in Procs |-> IF q = p THEN ctx ELSE Stale(proc[q], D)]
Unsettle(D) == settled' = [t \in Tables |-> IF t \in D THEN FALSE ELSE settled[t]]
TablesOf(s) == {t \in Tables : tables[t].googleSheetId = s}

\* createGoogleSheet: the header row set on a new spreadsheet.
HeaderValues(cols) == [j \in 1 .. Len(SheetColumns(cols)) |-> SheetColumns(cols)[j].name]

\* ---------------------------------------------------------------- syncGoogleSheet
InPull(c) == c.pc \in {"pull_conn", "pull_hdr", "pull_rows", "pull_save"}

\* syncGoogleSheet(table) is called: up to the await of initGoogleSheets.
CallPull(c, doc, ret, clean, rep) ==
  [c EXCEPT !.pc = "pull_conn", !.t = c.t, !.doc = doc, !.ret = ret, !.pullOk = TRUE,
            !.err = NoError,
            !.hdr = << >>, !.rows = << >>, !.hasChanged = FALSE, !.clean = clean,
            !.rep = rep]

\* The catch block: syncError to the room when io is set, then rethrow.
PullErrorEvents(t) == IF sheetsIo THEN << Event("syncError", t, << >>) >> ELSE << >>
PullFails(p, err) ==
  /\ Move(p, [proc[p] EXCEPT !.pc = proc[p].ret, !.pullOk = FALSE, !.err = err], {})
  /\ out' = Out(PullErrorEvents(proc[p].t), NoResp, "none")
  /\ UNCHANGED << tables, remote, sideFile, isSyncing, sheetsIo, sockets, nextId, nextRec, clock,
                  idOwner, settled >>

\* await initGoogleSheets(table.googleSheetId)
PullConnect(p) ==
  /\ proc[p].pc = "pull_conn"
  /\ \E ok \in BOOLEAN :
       IF proc[p].doc.googleSheetId = NoSheet \/ ~ok
         THEN PullFails(p, PullError("connect", {}))
         ELSE /\ Move(p, [proc[p] EXCEPT !.pc = "pull_hdr"], {})
              /\ out' = Quiet
              /\ UNCHANGED << tables, remote, sideFile, isSyncing, sheetsIo, sockets, nextId, nextRec,
                              clock, idOwner, settled >>

\* Every column of the schema is looked for in the header row.
MissingColumnsOfAll(cols, hdr) == ColumnNames(cols) \ SeqToSet(hdr)

\* tableColumns names absent from the header row
MissingColumns(cols, hdr) == SheetNames(cols) \ SeqToSet(hdr)

\* await sheet.loadHeaderRow(); header validation
PullHeaders(p) ==
  /\ proc[p].pc = "pull_hdr"
  /\ \E ok \in BOOLEAN :
       LET hdr == remote[proc[p].doc.googleSheetId].headers IN
       IF ~ok THEN PullFails(p, PullError("load", {}))
       ELSE IF MissingColumns(proc[p].doc.columns, hdr) # {}
         THEN PullFails(p, PullError("missing", MissingColumns(proc[p].doc.columns, hdr)))
         ELSE /\ Move(p, [proc[p] EXCEPT !.pc = "pull_rows", !.hdr = hdr], {})
              /\ out' = Quiet
              /\ UNCHANGED << tables, remote, sideFile, isSyncing, sheetsIo, sockets, nextId, nextRec,
                              clock, idOwner, settled >>

\* await sheet.getRows(); the mapping; the comparison; table.data = data
PullRows(p) ==
  /\ proc[p].pc = "pull_rows"
  /\ \E ok \in BOOLEAN :
       IF ~ok THEN PullFails(p, PullError("load", {}))
       ELSE
         LET c == proc[p]
             rrows == remote[c.doc.googleSheetId].rows
             data == BuildData(c.doc.columns, c.doc.data, c.hdr, rrows, nextId)
             n == Minted(c.doc.data, rrows)
         IN
         /\ nextId + n - 1 <= MaxId
         /\ nextId' = nextId + n
         /\ idOwner' = [i \in DOMAIN idOwner |->
                          IF i >= nextId /\ i < nextId + n
                            THEN rrows[Len(c.doc.data) + (i - nextId) + 1].rec
                            ELSE idOwner[i]]
         /\ IF HasChanged(c.doc.data, data)
              THEN /\ clock < MaxClock
                   /\ clock' = clock + 1
                   /\ Move(p, [c EXCEPT !.pc = "pull_save", !.rows = rrows,
                                        !.hasChanged = TRUE, !.doc.data = data,
                                        !.doc.lastSynced = clock + 1], {})
                   /\ UNCHANGED settled
              ELSE /\ clock' = clock
                   /\ Move(p, [c EXCEPT !.pc = c.ret, !.pullOk = TRUE, !.rows = rrows], {})
                   /\ settled' = [settled EXCEPT ![c.t] = IF c.clean THEN TRUE ELSE @]
         /\ out' = Quiet
         /\ UNCHANGED << tables, remote, sideFile, isSyncing, sheetsIo, sockets, nextRec >>

\* The save stops after the first row.
SavedTableFirstRowOnly(old, doc) ==
  [old EXCEPT !.data = [i \in 1 .. (IF Len(doc.data) > 1 THEN 1 ELSE Len(doc.data)) |->
                          BsonRow(doc.data[i])],
              !.lastSynced = doc.lastSynced]

\* What table.save() writes after `table.data = data; table.lastSynced = new Date()`.
SavedTable(old, doc) ==
  [old EXCEPT !.data = [i \in 1 .. Len(doc.data) |-> BsonRow(doc.data[i])],
              !.lastSynced = doc.lastSynced]

PullUpdateEvents(t, doc) ==
  IF sheetsIo THEN << Event("tableUpdated", t, doc.data) >> ELSE << >>

\* await table.save(); the tableUpdated emit; return table
PullSave(p) ==
  /\ proc[p].pc = "pull_save"
  /\ LET c == proc[p] IN
     /\ tables' = [tables EXCEPT ![c.t] = SavedTable(@, c.doc)]
     /\ Move(p, [c EXCEPT !.pc = c.ret, !.pullOk = TRUE, !.modified = FALSE], {c.t})
     /\ settled' = [settled EXCEPT ![c.t] = c.clean]
     /\ out' = Out(PullUpdateEvents(c.t, c.doc), NoResp, "none")
  /\ UNCHANGED << remote, sideFile, isSyncing, sheetsIo, sockets, nextId, nextRec, clock, idOwner >>

\* ---------------------------------------------------------------- setupGoogleSheetsSync
\* The in-flight check left out.
SweepBusyIgnored == FALSE

\* `if (isSyncing) return;`
SweepBusy == isSyncing

\* A timer tick: the callback starts; it returns at once when a sweep is in flight.
Tick(k) ==
  /\ proc[k].pc = "idle"
  /\ IF SweepBusy
       THEN /\ out' = Out(<< >>, NoResp, "skipped")
            /\ UNCHANGED << tables, remote, sideFile, isSyncing, sheetsIo, sockets, proc, nextId,
                            nextRec, clock, idOwner, settled >>
       ELSE /\ isSyncing' = TRUE
            /\ Move(k, [IdleCtx EXCEPT !.pc = "sw_find", !.kind = "sweep"], {})
            /\ out' = Out(<< >>, NoResp, "started")
            /\ UNCHANGED << tables, remote, sideFile, sheetsIo, sockets, nextId, nextRec, clock,
                            idOwner, settled >>

\* Table.find({ googleSheetId: { $exists: true, $ne: null } })
LinkedDocs ==
  LET linked == SelectSeq(TableOrder, LAMBDA t : tables[t].googleSheetId # NoSheet) IN
  [i \in 1 .. Len(linked) |-> QEntry(linked[i], tables[linked[i]], TRUE, settled[linked[i]])]

\* The loop ends without the finally block: the flag stays as it is.
SweepAdvanceKeepsFlag(k, c, queue) ==
  IF queue = << >>
    THEN /\ isSyncing' = isSyncing
         /\ Move(k, IdleCtx, {})
    ELSE /\ isSyncing' = isSyncing
         /\ Move(k, CallPull([c EXCEPT !.t = Head(queue).t, !.queue = Tail(queue)],
                             Head(queue).doc, "sw_next", Head(queue).clean, Head(queue).rep), {})

\* The for loop reaches its next table, or the sweep ends (finally).
SweepAdvance(k, c, queue) ==
  IF queue = << >>
    THEN /\ isSyncing' = FALSE
         /\ Move(k, IdleCtx, {})
    ELSE /\ isSyncing' = isSyncing
         /\ Move(k, CallPull([c EXCEPT !.t = Head(queue).t, !.queue = Tail(queue)],
                             Head(queue).doc, "sw_next", Head(queue).clean, Head(queue).rep), {})

\* await Table.find(...) returns (or throws: catch, then finally)
SweepFind(k) ==
  /\ proc[k].pc = "sw_find"
  /\ \E ok \in BOOLEAN :
       IF ok THEN SweepAdvance(k, proc[k], LinkedDocs)
       ELSE /\ isSyncing' = FALSE
            /\ Move(k, IdleCtx, {})
  /\ out' = Quiet
  /\ UNCHANGED << tables, remote, sideFile, sheetsIo, sockets, nextId, nextRec, clock, idOwner, settled >>

\* The table whose pull just returned is added to the failed ones when it threw.
Logged(c) == [c EXCEPT !.failed = IF c.pullOk THEN @ ELSE @ \cup {c.t}]

\* The error of a pull leaves the loop: catch of the sweep, then finally.
SweepNextAbortsOnError(k) ==
  /\ proc[k].pc = "sw_next"
  /\ SweepAdvance(k, Logged(proc[k]), IF proc[k].pullOk THEN proc[k].queue ELSE << >>)
  /\ out' = Quiet
  /\ UNCHANGED << tables, remote, sideFile, sheetsIo, sockets, nextId, nextRec, clock, idOwner, settled >>

\* syncGoogleSheet returned or threw (caught and logged) inside the loop
SweepNext(k) ==
  /\ proc[k].pc = "sw_next"
  /\ SweepAdvance(k, Logged(proc[k]), proc[k].queue)
  /\ out' = Quiet
  /\ UNCHANGED << tables, remote, sideFile, sheetsIo, sockets, nextId, nextRec, clock, idOwner, settled >>

\* Table.findOne finds the document (a deleted table's slot holds NoDoc).
Exists(t) == tables[t] # NoDoc

\* ---------------------------------------------------------------- GET /:id
\* Table.findOne; then the pull when linked, else the merged answer at once.
StartGet(q, t) ==
  /\ proc[q].pc = "idle"
  /\ Exists(t)
  /\ IF tables[t].googleSheetId # NoSheet
       THEN /\ Move(q, CallPull([IdleCtx EXCEPT !.kind = "get", !.t = t], tables[t],
                                "get_merge", TRUE, settled[t]), {})
            /\ out' = Quiet
       ELSE /\ UNCHANGED proc
            /\ out' = Out(<< >>, Resp("get", 200, t, MergeDashboardData(sideFile, t, tables[t].data), ""),
                          "none")
  /\ UNCHANGED << tables, remote, sideFile, isSyncing, sheetsIo, sockets, nextId, nextRec, clock,
                  idOwner, settled >>

\* After the pull: the merged table, or the unmerged table with syncError.
GetMerge(q) ==
  /\ proc[q].pc = "get_merge"
  /\ LET c == proc[q] IN
     out' = Out(<< >>,
                IF c.pullOk
                  THEN Resp("get", 200, c.t, MergeDashboardData(sideFile, c.t, c.doc.data), "")
                  ELSE Resp("get", 200, c.t, c.doc.data, "syncError"),
                "none")
  /\ Move(q, IdleCtx, {})
  /\ UNCHANGED << tables, remote, sideFile, isSyncing, sheetsIo, sockets, nextId, nextRec, clock,
                  idOwner, settled >>

\* ---------------------------------------------------------------- POST /:id/sync
StartSync(q, t) ==
  /\ proc[q].pc = "idle"
  /\ Exists(t)
  /\ IF tables[t].googleSheetId # NoSheet
       THEN /\ Move(q, CallPull([IdleCtx EXCEPT !.kind = "sync", !.t = t], tables[t],
                                "sync_done", TRUE, settled[t]), {})
            /\ out' = Quiet
       ELSE /\ UNCHANGED proc
            /\ out' = Out(<< >>, Resp("sync", 400, t, << >>, "No Google Sheet connected to this table"),
                          "none")
  /\ UNCHANGED << tables, remote, sideFile, isSyncing, sheetsIo, sockets, nextId, nextRec, clock,
                  idOwner, settled >>

SyncDone(q) ==
  /\ proc[q].pc = "sync_done"
  /\ LET c == proc[q] IN
     out' = Out(<< >>,
                IF c.pullOk THEN Resp("sync", 200, c.t, c.doc.data, "")
                ELSE Resp("sync", 500, c.t, << >>, "Failed to sync with Google Sheet"),
                "none")
  /\ Move(q, IdleCtx, {})
  /\ UNCHANGED << tables, remote, sideFile, isSyncing, sheetsIo, sockets, nextId, nextRec, clock,
                  idOwner, settled >>

\* ---------------------------------------------------------------- row requests
\* data[name] of a request body
Get(data, name) == IF name \in DOMAIN data THEN data[name] ELSE Undefined

\* Request bodies { data, isDashboardOnly } the model sends.
Body(data, flags) == [data |-> data, flags |-> flags]
AddBodies ==
  { Body([k \in {"A", "N"} |-> IF k = "A" THEN Num(7) ELSE Str("x")],
         [k \in {"A", "N"} |-> k = "N"]),
    Body([k \in {"A"} |-> Num(7)], [k \in {"A"} |-> FALSE]) }
UpdBodies ==
  { Body([k \in {"A"} |-> Num(8)], [k \in {"A"} |-> FALSE]),
    Body([k \in {"N"} |-> Str("y")], [k \in {"N"} |-> TRUE]),
    Body([k \in {"N"} |-> Str("y")], [k \in {"N"} |-> FALSE]) }

\* The cell a value becomes when handed to the sheet as it is (sheet.addRow).
RawCell(v) ==
  CASE v.t = "number" -> ToString(v.n)
    [] v.t = "string" -> v.s
    [] v.t = "boolean" -> IF v.n = 1 THEN "TRUE" ELSE "FALSE"
    [] OTHER -> ""

\* The type switch of updateGoogleSheetRow: typed value -> cell string.
FormatCell(type, v) ==
  IF v = Null \/ v = Undefined THEN ""
  ELSE CASE type = "date" -> IF v.t = "string" /\ v.s = "2024-01-02T00:00:00.000Z"
                               THEN "01/02/2024" ELSE ""
         [] type = "boolean" -> IF v = Bool(FALSE) \/ v = Num(0) \/ v = Str("") \/ v = NaN
                                  THEN "FALSE" ELSE "TRUE"
         [] type = "number" ->
              CASE v.t = "number" -> ToString(v.n)
                [] v.t = "boolean" -> ToString(v.n)
                [] v.t = "string" /\ v.s = "" -> "0"
                [] v.t = "string" /\ ParseFloat(v.s) # NaN -> v.s
                [] OTHER -> "NaN"
         [] OTHER -> RawCell(v)

\* The answer and the tableUpdate event of a row request: merged rows of `data`.
RowAnswer(op, file, t, data, row) ==
  LET merged == MergeDashboardData(file, t, data) IN
  Out(<< Event("tableUpdate", t, merged) >>, RowResp(op, t, merged, row), "none")
Failure(op, status, t, note) == Out(<< >>, Resp(op, status, t, << >>, note), "none")

\* ---------------------------------------------------------------- POST /:tableId/rows
\* The split of the body by the table's column flags, and the new row.
AddSheetData(cols, data) == [name \in SheetNames(cols) |-> Get(data, name)]
AddDashboardData(cols, data) == [name \in DashNames(cols) |-> Get(data, name)]
\* The new row takes every supplied value, dashboard-only ones included.
NewRowWithAllValues(cols, data, id, rec) ==
  MkRow(id, Spread([name \in ColumnNames(cols) |-> Null],
                   [name \in ColumnNames(cols) |-> Get(data, name)]), rec)

NewRow(cols, data, id, rec) ==
  MkRow(id, Spread([name \in ColumnNames(cols) |-> Null], AddSheetData(cols, data)), rec)

\* Table.findOne; the split; new ObjectId(); then the remote or the database.
StartAdd(q, t) ==
  /\ proc[q].pc = "idle"
  /\ Exists(t)
  /\ nextId <= MaxId /\ nextRec <= MaxRec
  /\ \E body \in AddBodies :
       LET doc == tables[t]
           sheetData == AddSheetData(doc.columns, body.data)
           c == [IdleCtx EXCEPT !.kind = "add", !.t = t, !.doc = doc, !.body = body,
                   !.sheetData = sheetData,
                   !.dashData = AddDashboardData(doc.columns, body.data),
                   !.row = NewRow(doc.columns, body.data, nextId, nextRec)]
       IN Move(q, [c EXCEPT !.pc = IF doc.googleSheetId # NoSheet /\ DOMAIN sheetData # {}
                                     THEN "add_conn" ELSE "add_db"], {})
  /\ nextId' = nextId + 1
  /\ nextRec' = nextRec + 1
  /\ idOwner' = [idOwner EXCEPT ![nextId] = nextRec]
  /\ out' = Quiet
  /\ UNCHANGED << tables, remote, sideFile, isSyncing, sheetsIo, sockets, clock, settled >>

\* await initGoogleSheets(table.googleSheetId); a failure is logged and swallowed
AddConnect(q) ==
  /\ proc[q].pc = "add_conn"
  /\ \E ok \in BOOLEAN : Move(q, [proc[q] EXCEPT !.pc = IF ok THEN "add_remote" ELSE "add_db",
                                        !.remoteOk = ok], {})
  /\ out' = Quiet
  /\ UNCHANGED << tables, remote, sideFile, isSyncing, sheetsIo, sockets, nextId, nextRec, clock,
                  idOwner, settled >>

\* The cells of the row handed to sheet.addRow, by the sheet's headers.
AddedCells(cols, headers, sheetData) ==
  [j \in 1 .. Len(headers) |->
     IF headers[j] \in SheetNames(cols) THEN RawCell(Get(sheetData, headers[j])) ELSE ""]

\* await sheet.addRow(rowData); a failure is logged and swallowed
AddRemote(q) ==
  /\ proc[q].pc = "add_remote"
  /\ LET c == proc[q]
         s == c.doc.googleSheetId
     IN \E ok \in BOOLEAN :
          IF ok
            THEN /\ Len(remote[s].rows) < MaxRemoteRows
                 /\ remote' = [remote EXCEPT ![s].rows =
                       Append(@, RemoteRow(c.row.rec,
                                           AddedCells(c.doc.columns, remote[s].headers, c.sheetData)))]
                 /\ Move(q, [c EXCEPT !.pc = "add_db"], TablesOf(s))
                 /\ Unsettle(TablesOf(s))
            ELSE /\ Move(q, [c EXCEPT !.pc = "add_db", !.remoteOk = FALSE], {})
                 /\ UNCHANGED << remote, settled >>
  /\ out' = Quiet
  /\ UNCHANGED << tables, sideFile, isSyncing, sheetsIo, sockets, nextId, nextRec, clock, idOwner >>

\* await Table.findOneAndUpdate({ $push: { data: newRow } }); saveDashboardData;
\* the tableUpdate emit; the answer
AddDb(q) ==
  /\ proc[q].pc = "add_db"
  /\ LET c == proc[q]
         result == [tables[c.t] EXCEPT !.data = Append(@, BsonRow(c.row))]
         saves == DOMAIN c.dashData # {}
         file == IF saves THEN SaveDashboardData(sideFile, c.t, c.row._id, c.dashData)
                 ELSE sideFile
     IN
     /\ tables' = [tables EXCEPT ![c.t] = result]
     /\ IF saves /\ ~SideReadable(sideFile)
          THEN /\ UNCHANGED sideFile
               /\ out' = Failure("add", 500, c.t, "Failed to add row")
          ELSE /\ sideFile' = file
               /\ out' = RowAnswer("add", file, c.t, result.data,
                                   MkRow(c.row._id, Spread(c.row.vals, c.dashData), c.row.rec))
     /\ Move(q, IdleCtx, {c.t})
     /\ Unsettle({c.t})
  /\ UNCHANGED << remote, isSyncing, sheetsIo, sockets, nextId, nextRec, clock, idOwner >>

\* ---------------------------------------------------------------- PUT /:tableId/rows/:rowId
\* The split of the body by the flags the body itself carries.
UpdSheetData(body) == [k \in {x \in DOMAIN body.data : ~body.flags[x]} |-> body.data[k]]
UpdDashboardData(body) == [k \in {x \in DOMAIN body.data : body.flags[x]} |-> body.data[k]]
\* { ...existingRowData, ...sheetData, _id: existingRow._id }
UpdatedRow(existing, sheetData) == [existing EXCEPT !.vals = Spread(existing.vals, sheetData)]

\* Table.findOne; the row by id; the split; then the remote or the database.
StartUpd(q, t) ==
  /\ proc[q].pc = "idle"
  /\ Exists(t)
  /\ \E rowId \in 1 .. MaxId, body \in UpdBodies :
       LET doc == tables[t]
           rowIndex == IndexOfId(doc.data, rowId)
           sheetData == UpdSheetData(body)
       IN
       IF rowIndex = 0
         THEN /\ UNCHANGED proc
              /\ out' = Failure("upd", 404, t, "Row not found")
         ELSE /\ Move(q, [IdleCtx EXCEPT
                       !.kind = "upd", !.t = t, !.doc = doc, !.rowId = rowId, !.body = body,
                       !.rowIndex = rowIndex, !.sheetData = sheetData,
                       !.dashData = UpdDashboardData(body),
                       !.row = UpdatedRow(doc.data[rowIndex], sheetData),
                       !.pc = IF doc.googleSheetId # NoSheet /\ DOMAIN sheetData # {}
                                THEN "upd_conn" ELSE "upd_db"], {})
              /\ out' = Quiet
  /\ UNCHANGED << tables, remote, sideFile, isSyncing, sheetsIo, sockets, nextId, nextRec, clock,
                  idOwner, settled >>

\* updateGoogleSheetRow: await initGoogleSheets
UpdConnect(q) ==
  /\ proc[q].pc = "upd_conn"
  /\ \E ok \in BOOLEAN : Move(q, [proc[q] EXCEPT !.pc = IF ok THEN "upd_hdr" ELSE "upd_db",
                                        !.remoteOk = ok], {})
  /\ out' = Quiet
  /\ UNCHANGED << tables, remote, sideFile, isSyncing, sheetsIo, sockets, nextId, nextRec, clock,
                  idOwner, settled >>

\* updateGoogleSheetRow: await sheet.loadHeaderRow()
UpdHeaders(q) ==
  /\ proc[q].pc = "upd_hdr"
  /\ \E ok \in BOOLEAN :
       Move(q, [proc[q] EXCEPT !.pc = IF ok THEN "upd_rows" ELSE "upd_db",
                               !.remoteOk = ok,
                               !.hdr = IF ok THEN remote[proc[q].doc.googleSheetId].headers
                                       ELSE << >>], {})
  /\ out' = Quiet
  /\ UNCHANGED << tables, remote, sideFile, isSyncing, sheetsIo, sockets, nextId, nextRec, clock,
                  idOwner, settled >>

\* `adjustedRowIndex < 0 || adjustedRowIndex >= rows.length` (indices 1-based here)
RowIndexOutOfBounds(rowIndex, n) == rowIndex < 1 \/ rowIndex > n

\* Every key of the data that names a header is written, whatever the schema says.
UpdatedCellsAnyKey(cols, hdr, cells, data) ==
  [j \in 1 .. Len(cells) |->
     IF j <= Len(hdr) /\ hdr[j] \in DOMAIN data
       THEN FormatCell(IF hdr[j] \in ColumnNames(cols)
                         THEN (CHOOSE c \in SeqToSet(cols) : c.name = hdr[j]).type
                         ELSE "text", data[hdr[j]])
       ELSE cells[j]]

\* The cells of the remote row after the rows[i].set calls.
UpdatedCells(cols, hdr, cells, data) ==
  [j \in 1 .. Len(cells) |->
     IF j <= Len(hdr) /\ hdr[j] \in DOMAIN data /\ hdr[j] \in SheetNames(cols)
       THEN FormatCell((CHOOSE c \in SeqToSet(cols) : c.name = hdr[j]).type, data[hdr[j]])
       ELSE cells[j]]

\* updateGoogleSheetRow: await sheet.getRows(); the bounds check; the cell updates
UpdRows(q) ==
  /\ proc[q].pc = "upd_rows"
  /\ LET c == proc[q]
         rrows == remote[c.doc.googleSheetId].rows
     IN \E ok \in BOOLEAN :
          IF ~ok \/ RowIndexOutOfBounds(c.rowIndex, Len(rrows))
            THEN Move(q, [c EXCEPT !.pc = "upd_db", !.remoteOk = FALSE], {})
            ELSE Move(q, [c EXCEPT !.pc = "upd_rsave",
                             !.cells = UpdatedCells(c.doc.columns, c.hdr,
                                                    rrows[c.rowIndex].cells, c.sheetData)], {})
  /\ out' = Quiet
  /\ UNCHANGED << tables, remote, sideFile, isSyncing, sheetsIo, sockets, nextId, nextRec, clock,
                  idOwner, settled >>

\* Every row of the sheet is written with the cells.
WriteRemoteRowEveryRow(rrows, i, cells, rec) ==
  [k \in 1 .. Len(rrows) |-> [rrows[k] EXCEPT !.cells = cells]]

\* The sheet after the row at position i is written with `cells`.
WriteRemoteRow(rrows, i, cells, rec) ==
  IF i <= Len(rrows) THEN [rrows EXCEPT ![i].cells = cells]
  ELSE rrows \o [j \in 1 .. (i - Len(rrows)) |->
                   IF j = i - Len(rrows) THEN RemoteRow(rec, cells)
                   ELSE RemoteRow(0, [x \in 1 .. Len(cells) |-> ""])]

\* updateGoogleSheetRow: await rows[i].save(); then syncGoogleSheet(table)
UpdRemoteSave(q) ==
  /\ proc[q].pc = "upd_rsave"
  /\ LET c == proc[q]
         s == c.doc.googleSheetId
     IN \E ok \in BOOLEAN :
          IF ok
            THEN /\ remote' = [remote EXCEPT ![s].rows =
                                 WriteRemoteRow(@, c.rowIndex, c.cells, c.row.rec)]
                 /\ Move(q, CallPull(c, c.doc, "upd_db", FALSE, FALSE), TablesOf(s))
                 /\ Unsettle(TablesOf(s))
            ELSE /\ Move(q, [c EXCEPT !.pc = "upd_db", !.remoteOk = FALSE], {})
                 /\ UNCHANGED << remote, settled >>
  /\ out' = Quiet
  /\ UNCHANGED << tables, sideFile, isSyncing, sheetsIo, sockets, nextId, nextRec, clock, idOwner >>

\* The stored array is left as it was.
ReplaceByIdKeepsStored(data, id, row) == data

\* The first row of the array is replaced, whatever its id.
ReplaceByIdAtHead(data, id, row) ==
  [i \in 1 .. Len(data) |-> IF i = 1 THEN BsonRow(row) ELSE data[i]]

\* findOneAndUpdate({ 'data._id': id }, { $set: { 'data.$': updatedRow } })
ReplaceById(data, id, row) ==
  [i \in 1 .. Len(data) |-> IF i = IndexOfId(data, id) THEN BsonRow(row) ELSE data[i]]

\* await Table.findOneAndUpdate(...); saveDashboardData; the emit; the answer
UpdDb(q) ==
  /\ proc[q].pc = "upd_db"
  /\ LET c == proc[q]
         found == IndexOfId(tables[c.t].data, c.rowId) # 0
         result == [tables[c.t] EXCEPT !.data = ReplaceById(@, c.rowId, c.row)]
         saves == DOMAIN c.dashData # {}
         file == IF saves THEN SaveDashboardData(sideFile, c.t, c.rowId, c.dashData)
                 ELSE sideFile
     IN
     IF ~found
       THEN /\ out' = Failure("upd", 404, c.t, "Failed to update row")
            /\ Move(q, IdleCtx, {})
            /\ UNCHANGED << tables, sideFile, settled >>
       ELSE /\ tables' = [tables EXCEPT ![c.t] = result]
            /\ IF saves /\ ~SideReadable(sideFile)
                 THEN /\ UNCHANGED sideFile
                      /\ out' = Failure("upd", 500, c.t, "Failed to update row")
                 ELSE /\ sideFile' = file
                      /\ out' = RowAnswer("upd", file, c.t, result.data,
                                          MkRow(c.rowId, Spread(c.row.vals, c.dashData), c.row.rec))
            /\ Move(q, IdleCtx, {c.t})
            /\ Unsettle({c.t})
  /\ UNCHANGED << remote, isSyncing, sheetsIo, sockets, nextId, nextRec, clock, idOwner >>

\* ---------------------------------------------------------------- DELETE /:id/rows/:rowId
\* Table.findOne; findIndex; splice; deleteDashboardData; then the remote or save
StartDel(q, t) ==
  /\ proc[q].pc = "idle"
  /\ Exists(t)
  /\ \E rowId \in 1 .. MaxId :
       LET doc == tables[t]
           rowIndex == IndexOfId(doc.data, rowId)
       IN
       IF rowIndex = 0
         THEN /\ UNCHANGED << proc, sideFile >>
              /\ out' = Failure("del", 404, t, "Row not found")
       ELSE IF ~SideReadable(sideFile)
         THEN /\ UNCHANGED << proc, sideFile >>
              /\ out' = Failure("del", 500, t, "Failed to delete row")
       ELSE /\ sideFile' = DeleteDashboardData(sideFile, t, rowId)
            /\ Move(q, [IdleCtx EXCEPT
                     !.kind = "del", !.t = t, !.rowId = rowId, !.rowIndex = rowIndex,
                     !.doc = [doc EXCEPT !.data = RemoveAt(@, rowIndex)], !.modified = TRUE,
                     !.pc = IF doc.googleSheetId # NoSheet THEN "del_conn" ELSE "del_save"], {})
            /\ out' = Quiet
  /\ UNCHANGED << tables, remote, isSyncing, sheetsIo, sockets, nextId, nextRec, clock, idOwner,
                  settled >>

\* deleteGoogleSheetRow: await initGoogleSheets
DelConnect(q) ==
  /\ proc[q].pc = "del_conn"
  /\ \E ok \in BOOLEAN : Move(q, [proc[q] EXCEPT !.pc = IF ok THEN "del_rows" ELSE "del_save",
                                        !.remoteOk = ok], {})
  /\ out' = Quiet
  /\ UNCHANGED << tables, remote, sideFile, isSyncing, sheetsIo, sockets, nextId, nextRec, clock,
                  idOwner, settled >>

\* Only the 1-based offset is taken back, the header row is not.
AdjustedRowIndexHeaderCounted(rowIndex) == (rowIndex + 2) - 1

\* The route passes rowIndex + 2 and deleteGoogleSheetRow subtracts 2 (1-based here).
AdjustedRowIndex(rowIndex) == (rowIndex + 2) - 2

\* deleteGoogleSheetRow: await sheet.getRows(); `if (!rows[adjustedRowIndex]) throw`
DelRows(q) ==
  /\ proc[q].pc = "del_rows"
  /\ LET c == proc[q]
         n == Len(remote[c.doc.googleSheetId].rows)
     IN \E ok \in BOOLEAN :
          Move(q, [c EXCEPT !.pc = IF ok /\ AdjustedRowIndex(c.rowIndex) \in 1 .. n
                                     THEN "del_rdel" ELSE "del_save",
                            !.remoteOk = ok /\ AdjustedRowIndex(c.rowIndex) \in 1 .. n], {})
  /\ out' = Quiet
  /\ UNCHANGED << tables, remote, sideFile, isSyncing, sheetsIo, sockets, nextId, nextRec, clock,
                  idOwner, settled >>

\* deleteGoogleSheetRow: await rows[i].delete(); then syncGoogleSheet(table)
DelRemote(q) ==
  /\ proc[q].pc = "del_rdel"
  /\ LET c == proc[q]
         s == c.doc.googleSheetId
         i == AdjustedRowIndex(c.rowIndex)
     IN \E ok \in BOOLEAN :
          IF ok
            THEN /\ remote' = [remote EXCEPT ![s].rows =
                                 IF i <= Len(@) THEN RemoveAt(@, i) ELSE @]
                 /\ Move(q, CallPull(c, c.doc, "del_save", FALSE, FALSE), TablesOf(s))
                 /\ Unsettle(TablesOf(s))
            ELSE /\ Move(q, [c EXCEPT !.pc = "del_save", !.remoteOk = FALSE], {})
                 /\ UNCHANGED << remote, settled >>
  /\ out' = Quiet
  /\ UNCHANGED << tables, sideFile, isSyncing, sheetsIo, sockets, nextId, nextRec, clock, idOwner >>

\* await table.save() (writes the spliced array unless the pull already saved);
\* the emit; the answer
DelSave(q) ==
  /\ proc[q].pc = "del_save"
  /\ LET c == proc[q] IN
     /\ tables' = [tables EXCEPT ![c.t].data = IF c.modified THEN c.doc.data ELSE @]
     /\ out' = RowAnswer("del", sideFile, c.t, c.doc.data, NoRow)
     /\ Move(q, IdleCtx, IF c.modified THEN {c.t} ELSE {})
     /\ Unsettle(IF c.modified THEN {c.t} ELSE {})
  /\ UNCHANGED << remote, sideFile, isSyncing, sheetsIo, sockets, nextId, nextRec, clock, idOwner >>

\* ---------------------------------------------------------------- POST /:id/columns
\* Request bodies { name, type, isDashboardOnly } the model sends.
NewColumns == { Column("M", "text", TRUE), Column("Z", "text", FALSE) }

\* table.columns.find(col => col.name === name).isDashboardOnly = true
MarkDashboardOnly(cols, name) ==
  [j \in 1 .. Len(cols) |->
     IF cols[j].name = name /\ \A i \in 1 .. j - 1 : cols[i].name # name
       THEN [cols[j] EXCEPT !.isDashboardOnly = TRUE] ELSE cols[j]]

\* Table.findOne; table.columns.push({ name, type, isDashboardOnly })
StartAddCol(q, t) ==
  /\ proc[q].pc = "idle"
  /\ Exists(t)
  /\ Len(tables[t].columns) < MaxColumns
  /\ \E col \in NewColumns :
       Move(q, [IdleCtx EXCEPT !.kind = "col", !.t = t, !.pc = "col_save",
                               !.doc = [tables[t] EXCEPT !.columns = Append(@, col)]], {})
  /\ out' = Quiet
  /\ UNCHANGED << tables, remote, sideFile, isSyncing, sheetsIo, sockets, nextId, nextRec, clock,
                  idOwner, settled >>

\* await table.save(); then syncGoogleSheet(table) for a sheet-bound column of a
\* linked table, else the answer
ColSave(q) ==
  /\ proc[q].pc = "col_save"
  /\ LET c == proc[q]
         col == c.doc.columns[Len(c.doc.columns)]
     IN
     /\ tables' = [tables EXCEPT ![c.t].columns = c.doc.columns]
     /\ IF ~col.isDashboardOnly /\ c.doc.googleSheetId # NoSheet
          THEN /\ Move(q, CallPull(c, c.doc, "col_after", FALSE, FALSE), {c.t})
               /\ out' = Quiet
          ELSE /\ Move(q, IdleCtx, {c.t})
               /\ out' = Out(<< >>, Resp("col", 200, c.t, c.doc.data, ""), "none")
     /\ Unsettle({c.t})
  /\ UNCHANGED << remote, sideFile, isSyncing, sheetsIo, sockets, nextId, nextRec, clock, idOwner >>

\* After the pull: the answer, or the column marked dashboard-only
ColAfter(q) ==
  /\ proc[q].pc = "col_after"
  /\ LET c == proc[q]
         col == c.doc.columns[Len(c.doc.columns)]
     IN
     IF c.pullOk
       THEN /\ Move(q, IdleCtx, {})
            /\ out' = Out(<< >>, Resp("col", 200, c.t, c.doc.data, ""), "none")
       ELSE /\ Move(q, [c EXCEPT !.pc = "col_fix",
                                 !.doc.columns = MarkDashboardOnly(@, col.name)], {})
            /\ out' = Quiet
  /\ UNCHANGED << tables, remote, sideFile, isSyncing, sheetsIo, sockets, nextId, nextRec, clock,
                  idOwner, settled >>

\* await table.save() of the marked column; the answer with syncError
ColFix(q) ==
  /\ proc[q].pc = "col_fix"
  /\ LET c == proc[q] IN
     /\ tables' = [tables EXCEPT ![c.t].columns = c.doc.columns]
     /\ Move(q, IdleCtx, {c.t})
     /\ out' = Out(<< >>, Resp("col", 200, c.t, c.doc.data, "syncError"), "none")
     /\ Unsettle({c.t})
  /\ UNCHANGED << remote, sideFile, isSyncing, sheetsIo, sockets, nextId, nextRec, clock, idOwner >>

\* ---------------------------------------------------------------- PUT /:id
\* Request bodies { columns } the model sends.
PutBodies == { << >>, << Column("M", "text", TRUE) >> }

\* [...existingColumns, ...newDashboardColumns]
PutColumns(cols, columns) ==
  SheetColumns(cols) \o SelectSeq(columns, LAMBDA col : col.isDashboardOnly)

\* Table.findOne; table.columns = [...]
StartPut(q, t) ==
  /\ proc[q].pc = "idle"
  /\ Exists(t)
  /\ \E columns \in PutBodies :
       /\ Len(PutColumns(tables[t].columns, columns)) <= MaxColumns
       /\ Move(q, [IdleCtx EXCEPT !.kind = "put", !.t = t, !.pc = "put_save",
                      !.doc = [tables[t] EXCEPT !.columns = PutColumns(@, columns)]], {})
  /\ out' = Quiet
  /\ UNCHANGED << tables, remote, sideFile, isSyncing, sheetsIo, sockets, nextId, nextRec, clock,
                  idOwner, settled >>

\* await table.save(); res.json(table)
PutSave(q) ==
  /\ proc[q].pc = "put_save"
  /\ LET c == proc[q] IN
     /\ tables' = [tables EXCEPT ![c.t].columns = c.doc.columns]
     /\ Move(q, IdleCtx, {c.t})
     /\ out' = Out(<< >>, Resp("put", 200, c.t, c.doc.data, ""), "none")
     /\ Unsettle({c.t})
  /\ UNCHANGED << remote, sideFile, isSyncing, sheetsIo, sockets, nextId, nextRec, clock, idOwner >>

\* ---------------------------------------------------------------- DELETE /:id
\* await Table.findOneAndDelete(...); res.json
DeleteTable(q, t) ==
  /\ proc[q].pc = "idle"
  /\ Exists(t)
  /\ tables' = [tables EXCEPT ![t] = NoDoc]
  /\ Move(q, IdleCtx, {t})
  /\ out' = Out(<< >>, Resp("deltable", 200, t, << >>, "Table deleted successfully"), "none")
  /\ Unsettle({t})
  /\ UNCHANGED << remote, sideFile, isSyncing, sheetsIo, sockets, nextId, nextRec, clock, idOwner >>

\* `if (!table) return res.status(404)` of the routes
NotFound(q, t) ==
  /\ proc[q].pc = "idle"
  /\ ~Exists(t)
  /\ \E op \in {"get", "sync", "add", "upd", "del", "col", "put", "deltable"} :
       out' = Failure(op, 404, t, "Table not found")
  /\ UNCHANGED << tables, remote, sideFile, isSyncing, sheetsIo, sockets, proc, nextId, nextRec,
                  clock, idOwner, settled >>

\* ---------------------------------------------------------------- owner scoping
\* req.user._id of a request: one of two users.
Users == {"u1", "u2"}

\* userId of the table documents: set when the table is created and assigned
\* nowhere else.
UserIdOf == [t \in Tables |-> IF t = "t1" THEN "u1" ELSE "u2"]

\* The lookup by table id alone.
FindOneAnyUser(t, userId) == IF Exists(t) THEN tables[t] ELSE NoDoc

\* Table.findOne({ _id: req.params.id, userId: req.user._id })
FindOne(t, userId) == IF Exists(t) /\ UserIdOf[t] = userId THEN tables[t] ELSE NoDoc

\* `if (!table) return res.status(404)...` of route `op`
TableNotFound(q, t, ops) ==
  /\ proc[q].pc = "idle"
  /\ \E op \in ops : out' = Failure(op, 404, t, "Table not found")
  /\ UNCHANGED << tables, remote, sideFile, isSyncing, sheetsIo, sockets, proc, nextId, nextRec,
                  clock, idOwner, settled >>

\* POST /:tableId/rows, PUT /:tableId/rows/:rowId, DELETE /:id/rows/:rowId
\* sent by user `userId`: the lookup, then the 404 or the handler.
RowRequest(q, t, userId) ==
  IF FindOne(t, userId) = NoDoc
    THEN TableNotFound(q, t, {"add", "upd", "del"})
    ELSE StartAdd(q, t) \/ StartUpd(q, t) \/ StartDel(q, t)

\* GET /:id and DELETE /:id sent by user `userId`.
TableRequest(q, t, userId) ==
  IF FindOne(t, userId) = NoDoc
    THEN TableNotFound(q, t, {"get", "deltable"})
    ELSE StartGet(q, t) \/ DeleteTable(q, t)

\* ---------------------------------------------------------------- PUT /:id/update-sheet
\* What extractSheetId gives for the googleSheetUrl of the body: no URL at
\* all, a URL of a spreadsheet, or a URL it cannot read.
SheetUrls == {NoSheet, "invalid"} \cup Sheets

\* Table.findOne; the unlink or the new id on the document; up to table.save()
StartUpdSheet(q, t) ==
  /\ proc[q].pc = "idle"
  /\ Exists(t)
  /\ \E url \in SheetUrls :
       IF url = "invalid"
         THEN /\ UNCHANGED proc
              /\ out' = Failure("sheet", 400, t, "Invalid Google Sheet URL")
         ELSE /\ Move(q, [IdleCtx EXCEPT !.kind = "sheet", !.t = t, !.pc = "sheet_save",
                                         !.doc = [tables[t] EXCEPT !.googleSheetId = url]], {})
              /\ out' = Quiet
  /\ UNCHANGED << tables, remote, sideFile, isSyncing, sheetsIo, sockets, nextId, nextRec, clock,
                  idOwner, settled >>

\* await table.save() of the link; the answer when unlinked, else syncGoogleSheet(table)
SheetSave(q) ==
  /\ proc[q].pc = "sheet_save"
  /\ LET c == proc[q] IN
     /\ tables' = [tables EXCEPT ![c.t].googleSheetId = c.doc.googleSheetId]
     /\ IF c.doc.googleSheetId = NoSheet
          THEN /\ Move(q, IdleCtx, {c.t})
               /\ out' = Out(<< >>, Resp("sheet", 200, c.t, c.doc.data, ""), "none")
          ELSE /\ Move(q, CallPull(c, c.doc, "sheet_done", FALSE, FALSE), {c.t})
               /\ out' = Quiet
     /\ Unsettle({c.t})
  /\ UNCHANGED << remote, sideFile, isSyncing, sheetsIo, sockets, nextId, nextRec, clock, idOwner >>

\* After the pull: the table, with a warning when the pull threw
SheetDone(q) ==
  /\ proc[q].pc = "sheet_done"
  /\ LET c == proc[q] IN
     out' = Out(<< >>, Resp("sheet", 200, c.t, c.doc.data, IF c.pullOk THEN "" ELSE "warning"),
                "none")
  /\ Move(q, IdleCtx, {})
  /\ UNCHANGED << tables, remote, sideFile, isSyncing, sheetsIo, sockets, nextId, nextRec, clock,
                  idOwner, settled >>

\* ---------------------------------------------------------------- Socket.IO
\* io.on('connection'): a client's socket is connected; it is in no table room.
Connect(c) ==
  /\ ~sockets[c].connected
  /\ sockets' = [sockets EXCEPT ![c] = Socket(TRUE, {})]
  /\ out' = Quiet
  /\ UNCHANGED << tables, remote, sideFile, isSyncing, sheetsIo, proc, nextId, nextRec, clock,
                  idOwner, settled >>

\* The table ids a joinTable / leaveTable message may carry ("" for none).
RoomRequests == Tables \cup {""}

\* socket.on('joinTable'): socket.join(`table-${tableId}`), then the callback
JoinTable(c, tableId) ==
  /\ sockets[c].connected
  /\ IF tableId = ""
       THEN /\ UNCHANGED sockets
            /\ out' = Out(<< >>, Resp("joinTable", 400, tableId, << >>, c), "none")
       ELSE /\ sockets' = [sockets EXCEPT ![c].rooms = @ \cup {tableId}]
            /\ out' = Out(<< >>, Resp("joinTable", 200, tableId, << >>, c), "none")
  /\ UNCHANGED << tables, remote, sideFile, isSyncing, sheetsIo, proc, nextId, nextRec, clock,
                  idOwner, settled >>

\* The room is kept.
LeaveTableKeepsRoom(c, tableId) ==
  /\ sockets[c].connected
  /\ UNCHANGED sockets
  /\ out' = Out(<< >>, Resp("leaveTable", IF tableId = "" THEN 400 ELSE 200, tableId, << >>, c),
                "none")
  /\ UNCHANGED << tables, remote, sideFile, isSyncing, sheetsIo, proc, nextId, nextRec, clock,
                  idOwner, settled >>

\* socket.on('leaveTable'): socket.leave(`table-${tableId}`), then the callback
LeaveTable(c, tableId) ==
  /\ sockets[c].connected
  /\ IF tableId = ""
       THEN /\ UNCHANGED sockets
            /\ out' = Out(<< >>, Resp("leaveTable", 400, tableId, << >>, c), "none")
       ELSE /\ sockets' = [sockets EXCEPT ![c].rooms = @ \ {tableId}]
            /\ out' = Out(<< >>, Resp("leaveTable", 200, tableId, << >>, c), "none")
  /\ UNCHANGED << tables, remote, sideFile, isSyncing, sheetsIo, proc, nextId, nextRec, clock,
                  idOwner, settled >>

\* socket.on('disconnect'): the socket is gone, and with it its rooms
Disconnect(c) ==
  /\ sockets[c].connected
  /\ sockets' = [sockets EXCEPT ![c] = NoSocket]
  /\ out' = Out(<< >>, Resp("disconnect", 0, "none", << >>, c), "none")
  /\ UNCHANGED << tables, remote, sideFile, isSyncing, sheetsIo, proc, nextId, nextRec, clock,
                  idOwner, settled >>

\* io.to(`table-${t}`).emit(...): the events of o that reach client c, in order.
Delivered(c, o) ==
  SelectSeq(o.events, LAMBDA e : sockets[c].connected /\ e.t \in sockets[c].rooms)

\* socket.on('tableUpdated', callback): the events the client's handler is run with.
OnTableUpdate(c, o) == SelectSeq(Delivered(c, o), LAMBDA e : e.name = "tableUpdated")

\* ---------------------------------------------------------------- environment
\* Somebody edits the spreadsheet, or the Side Store file is damaged on disk.
RemoteChanged(s, r) ==
  /\ remote' = [remote EXCEPT ![s] = r]
  /\ proc' = [q \in Procs |-> Stale(proc[q], TablesOf(s))]
  /\ Unsettle(TablesOf(s))
  /\ out' = Quiet
  /\ UNCHANGED << tables, sideFile, isSyncing, sheetsIo, sockets, nextId, clock, idOwner >>

RemoteInsertRow(s) ==
  /\ Len(remote[s].rows) < MaxRemoteRows
  /\ nextRec <= MaxRec
  /\ \E cell \in Cells, front \in BOOLEAN :
       LET new == RemoteRow(nextRec, [j \in 1 .. Len(remote[s].headers) |-> cell]) IN
       RemoteChanged(s, [remote[s] EXCEPT !.rows = IF front THEN << new >> \o @
                                                   ELSE Append(@, new)])
  /\ nextRec' = nextRec + 1

RemoteDeleteRow(s) ==
  /\ \E i \in 1 .. Len(remote[s].rows) :
       RemoteChanged(s, [remote[s] EXCEPT !.rows = RemoveAt(@, i)])
  /\ UNCHANGED nextRec

RemoteSetCell(s) ==
  /\ \E i \in 1 .. Len(remote[s].rows), j \in 1 .. Len(remote[s].headers), cell \in Cells :
       /\ remote[s].rows[i].cells[j] # cell
       /\ RemoteChanged(s, [remote[s] EXCEPT !.rows[i].cells[j] = cell])
  /\ UNCHANGED nextRec

RemoteRenameHeader(s) ==
  /\ \E j \in 1 .. Len(remote[s].headers), name \in HeaderNames :
       /\ name \notin SeqToSet(remote[s].headers)
       /\ RemoteChanged(s, [remote[s] EXCEPT !.headers[j] = name])
  /\ UNCHANGED nextRec

SideFileDamaged ==
  /\ sideFile.kind = "json"
  /\ \E kind \in {"invalid", "missing"} : sideFile' = SideBroken(kind)
  /\ out' = Quiet
  /\ UNCHANGED << tables, remote, isSyncing, sheetsIo, sockets, proc, nextId, nextRec, clock, idOwner,
                  settled >>

\* ---------------------------------------------------------------- Side Store calls
\* The `data` objects handed to saveDashboardData.
SideInputs ==
  { [k \in {"N"} |-> Str("x")],
    [k \in {"M"} |-> Str("z")],
    [k \in {"N", "M"} |-> IF k = "N" THEN Str("y") ELSE Str("z")],
    [k \in {"N"} |-> Undefined] }

\* History: the Side Store function the last step called, with its arguments.
Called(name, t, rowId, data) ==
  Out(<< >>, [NoResp EXCEPT !.op = name, !.t = t, !.row = MkRow(rowId, data, 0)], "none")

\* One call of saveDashboardData(tableId, rowId, data): read, parse, assign,
\* write; a file that cannot be read or parsed makes it throw before the write.
SaveDashboardDataCall(t, rowId, data) ==
  /\ sideFile' = IF SideReadable(sideFile) THEN SaveDashboardData(sideFile, t, rowId, data)
                 ELSE sideFile
  /\ out' = Called("saveDashboardData", t, rowId, data)
  /\ UNCHANGED << tables, remote, isSyncing, sheetsIo, sockets, proc, nextId, nextRec, clock, idOwner,
                  settled >>

\* One call of deleteDashboardData(tableId, rowId).
DeleteDashboardDataCall(t, rowId) ==
  /\ sideFile' = IF SideReadable(sideFile) THEN DeleteDashboardData(sideFile, t, rowId)
                 ELSE sideFile
  /\ out' = Called("deleteDashboardData", t, rowId, EmptyObj)
  /\ UNCHANGED << tables, remote, isSyncing, sheetsIo, sockets, proc, nextId, nextRec, clock, idOwner,
                  settled >>

\* ---------------------------------------------------------------- specification
Init ==
  /\ tables = [t \in Tables |->
                 MkTable(InitColumns, << >>, IF t = "t1" THEN "s1" ELSE NoSheet, 0)]
  /\ remote = [s \in Sheets |-> MkRemote(<< "A" >>, << >>)]
  /\ sideFile = EmptySide
  /\ isSyncing = FALSE
  /\ sheetsIo = FALSE
  /\ sockets = [c \in Clients |-> NoSocket]
  /\ proc = [p \in Procs |-> IdleCtx]
  /\ nextId = 1
  /\ nextRec = 1
  /\ clock = 0
  /\ idOwner = [i \in 1 .. MaxId + 1 |-> 0]
  /\ settled = [t \in Tables |-> FALSE]
  /\ out = Quiet

\* The steps of syncGoogleSheet, for whoever called it.
PullSteps ==
  \/ \E p \in Procs : PullConnect(p)
  \/ \E p \in Procs : PullHeaders(p)
  \/ \E p \in Procs : PullRows(p)
  \/ \E p \in Procs : PullSave(p)

\* Row requests, table reads and the pulls they run, with a Side Store file
\* that may get damaged.
Next ==
  \/ PullSteps
  \/ \E q \in Reqs, t \in Tables : StartGet(q, t)
  \/ \E q \in Reqs : GetMerge(q)
  \/ \E q \in Reqs, t \in Tables : StartAdd(q, t)
  \/ \E q \in Reqs : AddConnect(q)
  \/ \E q \in Reqs : AddRemote(q)
  \/ \E q \in Reqs : AddDb(q)
  \/ \E q \in Reqs, t \in Tables : StartUpd(q, t)
  \/ \E q \in Reqs : UpdConnect(q)
  \/ \E q \in Reqs : UpdHeaders(q)
  \/ \E q \in Reqs : UpdRows(q)
  \/ \E q \in Reqs : UpdRemoteSave(q)
  \/ \E q \in Reqs : UpdDb(q)
  \/ \E q \in Reqs, t \in Tables : StartDel(q, t)
  \/ \E q \in Reqs : DelConnect(q)
  \/ \E q \in Reqs : DelRows(q)
  \/ \E q \in Reqs : DelRemote(q)
  \/ \E q \in Reqs : DelSave(q)
  \/ SideFileDamaged

Spec == Init /\ [][Next]_vars

\* Explicit syncs and table reads against a spreadsheet edited from outside.
NextPull ==
  \/ PullSteps
  \/ \E q \in Reqs, t \in Tables : StartGet(q, t)
  \/ \E q \in Reqs : GetMerge(q)
  \/ \E q \in Reqs, t \in Tables : StartSync(q, t)
  \/ \E q \in Reqs : SyncDone(q)
  \/ \E s \in Sheets : RemoteInsertRow(s)
  \/ \E s \in Sheets : RemoteDeleteRow(s)
  \/ \E s \in Sheets : RemoteSetCell(s)
  \/ \E s \in Sheets : RemoteRenameHeader(s)

SpecPull == Init /\ [][NextPull]_vars

\* The periodic sweep: timer ticks and the pulls of one sweep.
NextSweep ==
  \/ PullSteps
  \/ \E k \in Ticks : Tick(k)
  \/ \E k \in Ticks : SweepFind(k)
  \/ \E k \in Ticks : SweepNext(k)
  \/ \E s \in Sheets : RemoteInsertRow(s)
  \/ \E s \in Sheets : RemoteRenameHeader(s)

SpecSweep == Init /\ [][NextSweep]_vars

\* Both tables are linked to the spreadsheet.
InitAllLinked ==
  /\ tables = [t \in Tables |-> MkTable(InitColumns, << >>, "s1", 0)]
  /\ remote = [s \in Sheets |-> MkRemote(<< "A" >>, << >>)]
  /\ sideFile = EmptySide
  /\ isSyncing = FALSE
  /\ sheetsIo = FALSE
  /\ sockets = [c \in Clients |-> NoSocket]
  /\ proc = [p \in Procs |-> IdleCtx]
  /\ nextId = 1
  /\ nextRec = 1
  /\ clock = 0
  /\ idOwner = [i \in 1 .. MaxId + 1 |-> 0]
  /\ settled = [t \in Tables |-> FALSE]
  /\ out = Quiet

\* The periodic sweep over two linked tables.
SpecSweepAll == InitAllLinked /\ [][NextSweep]_vars

\* The timer fires again and again, and the awaits on the database and the
\* continuations of the loop complete. Nothing in setupGoogleSheetsSync,
\* syncGoogleSheet or initGoogleSheets bounds the awaits on the spreadsheet, so
\* the remote steps carry no fairness here: a remote call may never answer.
LocalFairness ==
  \A k \in Ticks :
    /\ WF_vars(Tick(k)) /\ WF_vars(SweepFind(k)) /\ WF_vars(SweepNext(k))
    /\ WF_vars(PullSave(k))
SpecSweepLive == SpecSweep /\ LocalFairness

\* The same with every remote call answered (or refused) in the end.
RemoteFairness ==
  \A k \in Ticks :
    WF_vars(PullConnect(k)) /\ WF_vars(PullHeaders(k)) /\ WF_vars(PullRows(k))
SpecSweepAnswered == SpecSweep /\ LocalFairness /\ RemoteFairness

\* The database and the spreadsheet are reachable: a call that is made again
\* and again is answered without an error again and again (the header
\* validation can still refuse a header row with a column missing).
ReachableFairness ==
  /\ SF_vars(\E k \in Ticks : SweepFind(k) /\ proc'[k].pc = "pull_conn")
  /\ SF_vars(\E k \in Ticks : PullConnect(k) /\ proc'[k].err = NoError)
  /\ SF_vars(\E k \in Ticks : PullHeaders(k) /\ proc'[k].err = NoError)
  /\ SF_vars(\E k \in Ticks : PullRows(k) /\ proc'[k].err = NoError)

\* The periodic sweep with the database and the spreadsheet reachable.
SpecSweepReachable == SpecSweep /\ LocalFairness /\ ReachableFairness

\* A sheet whose header row also has columns named like N and Z.
InitSchema ==
  /\ tables = [t \in Tables |->
                 MkTable(InitColumns, << >>, IF t = "t1" THEN "s1" ELSE NoSheet, 0)]
  /\ remote = [s \in Sheets |-> MkRemote(<< "A", "N", "Z" >>, << >>)]
  /\ sideFile = EmptySide
  /\ isSyncing = FALSE
  /\ sheetsIo = FALSE
  /\ sockets = [c \in Clients |-> NoSocket]
  /\ proc = [p \in Procs |-> IdleCtx]
  /\ nextId = 1
  /\ nextRec = 1
  /\ clock = 0
  /\ idOwner = [i \in 1 .. MaxId + 1 |-> 0]
  /\ settled = [t \in Tables |-> FALSE]
  /\ out = Quiet

\* The table the initial state links to sheet s1.
LinkedTables == {"t1"}

\* Schema changes and table deletion, with row adds and reads, on the linked table.
NextSchema ==
  \/ PullSteps
  \/ \E q \in Reqs, t \in LinkedTables : StartGet(q, t)
  \/ \E q \in Reqs : GetMerge(q)
  \/ \E q \in Reqs, t \in LinkedTables : StartAdd(q, t)
  \/ \E q \in Reqs : AddConnect(q)
  \/ \E q \in Reqs : AddRemote(q)
  \/ \E q \in Reqs : AddDb(q)
  \/ \E q \in Reqs, t \in LinkedTables : StartAddCol(q, t)
  \/ \E q \in Reqs : ColSave(q)
  \/ \E q \in Reqs : ColAfter(q)
  \/ \E q \in Reqs : ColFix(q)
  \/ \E q \in Reqs, t \in LinkedTables : StartPut(q, t)
  \/ \E q \in Reqs : PutSave(q)
  \/ \E q \in Reqs, t \in LinkedTables : DeleteTable(q, t)
  \/ \E q \in Reqs, t \in LinkedTables : NotFound(q, t)

SpecSchema == InitSchema /\ [][NextSchema]_vars

\* Row adds and updates pushed to a sheet that has a column named like the
\* dashboard-only column, and the reads in between.
NextPush ==
  \/ PullSteps
  \/ \E q \in Reqs, t \in LinkedTables : StartGet(q, t)
  \/ \E q \in Reqs : GetMerge(q)
  \/ \E q \in Reqs, t \in LinkedTables : StartAdd(q, t)
  \/ \E q \in Reqs : AddConnect(q)
  \/ \E q \in Reqs : AddRemote(q)
  \/ \E q \in Reqs : AddDb(q)
  \/ \E q \in Reqs, t \in LinkedTables : StartUpd(q, t)
  \/ \E q \in Reqs : UpdConnect(q)
  \/ \E q \in Reqs : UpdHeaders(q)
  \/ \E q \in Reqs : UpdRows(q)
  \/ \E q \in Reqs : UpdRemoteSave(q)
  \/ \E q \in Reqs : UpdDb(q)

SpecPush == InitSchema /\ [][NextPush]_vars

\* The sweep, table reads and explicit syncs while the first table is unlinked
\* and linked again and rows are added to the spreadsheet from outside.
NextLink ==
  \/ PullSteps
  \/ \E k \in Ticks : Tick(k)
  \/ \E k \in Ticks : SweepFind(k)
  \/ \E k \in Ticks : SweepNext(k)
  \/ \E q \in Reqs, t \in Tables : StartGet(q, t)
  \/ \E q \in Reqs : GetMerge(q)
  \/ \E q \in Reqs, t \in Tables : StartSync(q, t)
  \/ \E q \in Reqs : SyncDone(q)
  \/ \E q \in Reqs, t \in LinkedTables : StartUpdSheet(q, t)
  \/ \E q \in Reqs : SheetSave(q)
  \/ \E q \in Reqs : SheetDone(q)
  \/ \E s \in Sheets : RemoteInsertRow(s)

SpecLink == Init /\ [][NextLink]_vars

\* The table that has no spreadsheet.
LocalTables == {"t2"}

\* Row adds on both tables, row updates and deletes on the table without a
\* spreadsheet, while clients connect, join and leave table rooms and disconnect.
NextNotify ==
  \/ \E q \in Reqs, t \in Tables : StartAdd(q, t)
  \/ \E q \in Reqs : AddConnect(q)
  \/ \E q \in Reqs : AddRemote(q)
  \/ \E q \in Reqs : AddDb(q)
  \/ \E q \in Reqs, t \in LocalTables : StartUpd(q, t)
  \/ \E q \in Reqs : UpdDb(q)
  \/ \E q \in Reqs, t \in LocalTables : StartDel(q, t)
  \/ \E q \in Reqs : DelSave(q)
  \/ \E c \in Clients : Connect(c)
  \/ \E c \in Clients, t \in RoomRequests : JoinTable(c, t)
  \/ \E c \in Clients, t \in RoomRequests : LeaveTable(c, t)
  \/ \E c \in Clients : Disconnect(c)

SpecNotify == Init /\ [][NextNotify]_vars

\* Two row requests at a time on the table without a spreadsheet.
NextRace ==
  \/ \E q \in TwoReqs, t \in LocalTables : StartAdd(q, t)
  \/ \E q \in TwoReqs : AddDb(q)
  \/ \E q \in TwoReqs, t \in LocalTables : StartUpd(q, t)
  \/ \E q \in TwoReqs : UpdDb(q)
  \/ \E q \in TwoReqs, t \in LocalTables : StartDel(q, t)
  \/ \E q \in TwoReqs : DelSave(q)

SpecRace == Init /\ [][NextRace]_vars

\* Row and table requests by either user on the linked table, and what the
\* handlers go on to do.
NextOwner ==
  \/ PullSteps
  \/ \E q \in Reqs, t \in LinkedTables, u \in Users : RowRequest(q, t, u)
  \/ \E q \in Reqs, t \in LinkedTables, u \in Users : TableRequest(q, t, u)
  \/ \E q \in Reqs : GetMerge(q)
  \/ \E q \in Reqs : AddConnect(q)
  \/ \E q \in Reqs : AddRemote(q)
  \/ \E q \in Reqs : AddDb(q)
  \/ \E q \in Reqs : UpdConnect(q)
  \/ \E q \in Reqs : UpdHeaders(q)
  \/ \E q \in Reqs : UpdRows(q)
  \/ \E q \in Reqs : UpdRemoteSave(q)
  \/ \E q \in Reqs : UpdDb(q)
  \/ \E q \in Reqs : DelConnect(q)
  \/ \E q \in Reqs : DelRows(q)
  \/ \E q \in Reqs : DelRemote(q)
  \/ \E q \in Reqs : DelSave(q)

SpecOwner == Init /\ [][NextOwner]_vars

\* Row adds on the linked table while the periodic sweep pulls it.
NextAddRace ==
  \/ PullSteps
  \/ \E k \in Ticks : Tick(k)
  \/ \E k \in Ticks : SweepFind(k)
  \/ \E k \in Ticks : SweepNext(k)
  \/ \E q \in Reqs, t \in LinkedTables : StartAdd(q, t)
  \/ \E q \in Reqs : AddConnect(q)
  \/ \E q \in Reqs : AddRemote(q)
  \/ \E q \in Reqs : AddDb(q)

SpecAddRace == Init /\ [][NextAddRace]_vars

\* Calls of the Side Store functions, on a file that may get damaged.
NextSide ==
  \/ \E t \in Tables, rowId \in 1 .. MaxId, data \in SideInputs :
       SaveDashboardDataCall(t, rowId, data)
  \/ \E t \in Tables, rowId \in 1 .. MaxId : DeleteDashboardDataCall(t, rowId)
  \/ SideFileDamaged

SpecSide == Init /\ [][NextSide]_vars

\* ================================================================ claims
\* Sweeps in flight: timer callbacks past the isSyncing check and not yet returned.
SweepsInFlight == {k \in Ticks : proc[k].pc # "idle"}

\* C1: at most one periodic sweep is in flight at any time, and a tick that
\* fires while a sweep is running changes nothing: no table, no remote, no Side
\* Store write, no queued work, no notification.
C1_OneSweepInFlight ==
  /\ [](Cardinality(SweepsInFlight) <= 1)
  /\ [][out'.tick = "skipped" =>
          /\ UNCHANGED << tables, remote, sideFile, isSyncing, proc, nextId, clock >>
          /\ out'.events = << >>]_vars

\* A tick fired while a sweep was pulling a table and was skipped.
C1_Witness ==
  /\ out.tick = "skipped"
  /\ \E k \in Ticks : InPull(proc[k])

\* Process p takes a step of syncGoogleSheet.
PullStep(p) == InPull(proc[p]) /\ proc'[p].pc # proc[p].pc
\* Process p is back in its caller after syncGoogleSheet returned or threw.
AfterPull(p) == proc[p].pc \in {"sync_done", "get_merge", "sw_next", "upd_db", "del_save",
                                "col_after", "sheet_done"}
                  /\ proc[p].ret = proc[p].pc

\* C2: a pull is never partially applied. Every step of a pull leaves the
\* persisted table as it was or replaces its row array by the complete array
\* built from the remote rows (one row per remote row read); a step on which
\* the pull fails leaves rows and lastSynced exactly as they were.
C2_PullAllOrNothing ==
  [][\A p \in Procs : PullStep(p) =>
        LET t == proc[p].t IN
        /\ \A u \in Tables \ {t} : tables'[u] = tables[u]
        /\ \/ tables'[t] = tables[t]
           \/ /\ proc[p].pc = "pull_save"
              /\ Len(tables'[t].data) = Len(proc[p].rows)
              /\ tables'[t].data = proc[p].doc.data
              /\ tables'[t].lastSynced = proc[p].doc.lastSynced
        /\ ~proc'[p].pullOk => tables' = tables]_vars

\* A pull failed on the header check while the table held rows.
C2_Witness ==
  \E p \in Procs :
    /\ AfterPull(p) /\ ~proc[p].pullOk
    /\ Len(tables[proc[p].t].data) >= 1
    /\ MissingColumns(tables[proc[p].t].columns, remote["s1"].headers) # {}

\* C3: after a successful pull that found a difference, stored row i holds,
\* for every non-dashboard-only column, the type-coerced value of remote row i,
\* for every i below the remote row count.
C3_RemoteWins ==
  \A p \in Procs :
    (AfterPull(p) /\ proc[p].pullOk /\ proc[p].hasChanged) =>
      LET t == proc[p].t
          cols == tables[t].columns
          data == tables[t].data
      IN /\ Len(data) >= Len(proc[p].rows)
         /\ \A i \in 1 .. Len(proc[p].rows), j \in 1 .. Len(cols) :
              ~cols[j].isDashboardOnly =>
                /\ cols[j].name \in DOMAIN data[i].vals
                /\ data[i].vals[cols[j].name] =
                     CoerceCell(cols[j].type, RowGet(proc[p].hdr, proc[p].rows[i], cols[j].name))

\* The only row ever minted was written twice: the second pull overrode its value.
C3_Witness ==
  \E p \in Procs :
    /\ AfterPull(p) /\ proc[p].pullOk /\ proc[p].hasChanged
    /\ Len(proc[p].rows) = 1 /\ nextId = 2 /\ clock = 2

\* C4: a pull leaves the Side Store unchanged, and for every row whose id is
\* still present after the pull the merged read returns the same
\* dashboard-only values as before the pull.
C4_PullKeepsDashboardValues ==
  [][\A p \in Procs : PullStep(p) =>
        LET t == proc[p].t
            before == MergeDashboardData(sideFile, t, tables[t].data)
            after == MergeDashboardData(sideFile', t, tables'[t].data)
        IN /\ sideFile' = sideFile
           /\ \A i \in 1 .. Len(before), j \in 1 .. Len(after) :
                before[i]._id = after[j]._id =>
                  \A name \in DashNames(tables[t].columns) :
                    ReadKey(after[j].vals, name) = ReadKey(before[i].vals, name)]_vars

\* C5: a pull that runs again with unchanged remote content and no local
\* mutation in between writes nothing: the table and lastSynced stay as they
\* are, the comparison finds no change and no notification is emitted.
C5_PullIdempotent ==
  [][\A p \in Procs : (PullStep(p) /\ proc[p].rep /\ proc[p].clean) =>
        /\ tables' = tables
        /\ out'.events = << >>
        /\ proc'[p].pc # "pull_save"
        /\ ~proc'[p].hasChanged]_vars

\* A repeated pull of a table with rows ran to its end.
C5_Witness ==
  \E p \in Procs :
    /\ AfterPull(p) /\ proc[p].pullOk /\ proc[p].rep /\ proc[p].clean
    /\ Len(proc[p].rows) >= 1

\* C6 as claimed: the stored rows at indices beyond the remote's row count are
\* still in the Row Store after the pull.
C6_ExtraRowsKept ==
  [][\A p \in Procs : (PullStep(p) /\ proc[p].pc = "pull_save") =>
        \A i \in 1 .. Len(tables[proc[p].t].data) :
           i > Len(proc[p].rows) =>
             tables[proc[p].t].data[i]._id \in RowIds(tables'[proc[p].t].data)]_vars

\* C6 as amended: a pull that finds a difference replaces the whole row array
\* by one row per remote row, so the stored rows beyond the remote's row count
\* are removed.
C6_PullTruncates ==
  [][\A p \in Procs : (PullStep(p) /\ proc[p].pc = "pull_save") =>
        /\ Len(tables'[proc[p].t].data) = Len(proc[p].rows)
        /\ \A i \in 1 .. Len(tables[proc[p].t].data) :
             i > Len(proc[p].rows) =>
               tables[proc[p].t].data[i]._id \notin RowIds(tables'[proc[p].t].data)]_vars

\* A pull wrote fewer rows than ids were minted for the table: a row was dropped.
C6_Witness ==
  \E p \in Procs :
    /\ AfterPull(p) /\ proc[p].pullOk /\ proc[p].hasChanged
    /\ Len(proc[p].rows) = 1 /\ Len(tables[proc[p].t].data) = 1 /\ nextId = 3

\* C7: the row built from remote row i gets the id of the stored row at index
\* i when there is one, and an ObjectId never used before otherwise.
C7_IdByIndex ==
  [][\A p \in Procs : (PullStep(p) /\ proc'[p].pc = "pull_save") =>
        LET old == proc[p].doc.data
            new == proc'[p].doc.data
        IN \A i \in 1 .. Len(new) :
             IF i <= Len(old) THEN new[i]._id = old[i]._id
             ELSE /\ new[i]._id >= nextId /\ new[i]._id < nextId'
                  /\ \A j \in 1 .. Len(new) : j # i => new[j]._id # new[i]._id]_vars

\* A pull built two rows: the first kept the stored row's id, the second got a new one.
C7_Witness ==
  \E p \in Procs :
    /\ proc[p].pc = "pull_save"
    /\ Len(tables[proc[p].t].data) = 1 /\ Len(proc[p].doc.data) = 2
    /\ proc[p].doc.data[1]._id = tables[proc[p].t].data[1]._id
    /\ proc[p].doc.data[2]._id = nextId - 1

\* C8: row ids are stable and never reused: every stored row carries the id
\* minted for the logical record it stands for, and ids are distinct in a table.
C8_RowIdsStable ==
  \A t \in Tables :
    LET data == tables[t].data IN
    /\ \A i \in 1 .. Len(data) : idOwner[data[i]._id] = data[i].rec
    /\ \A i, j \in 1 .. Len(data) : i # j => data[i]._id # data[j]._id

\* C9: merge returns, for every stored row in order, the stored row overlaid
\* with every key of its Side Store entry, the Side Store value winning on
\* every key present in both; a row without an entry is returned unchanged;
\* number and order of rows are those of the stored array.
C9_MergeOverlay ==
  (/\ out.resp.op \in {"get", "add", "upd", "del"}
   /\ out.resp.status = 200 /\ out.resp.note = ""
   /\ SideReadable(sideFile)) =>
    LET stored == tables[out.resp.t].data
        merged == out.resp.data
        side == sideFile.doc[out.resp.t]
    IN /\ Len(merged) = Len(stored)
       /\ \A i \in 1 .. Len(stored) :
            /\ merged[i]._id = stored[i]._id
            /\ IF stored[i]._id \in DOMAIN side
                 THEN LET entry == side[stored[i]._id] IN
                      /\ DOMAIN merged[i].vals = DOMAIN stored[i].vals \cup DOMAIN entry
                      /\ \A k \in DOMAIN merged[i].vals :
                           merged[i].vals[k] =
                             IF k \in DOMAIN entry THEN entry[k] ELSE stored[i].vals[k]
                 ELSE merged[i] = stored[i]

\* A read answered a row whose stored N (null) lost against the Side Store's N.
C9_Witness ==
  /\ out.resp.op = "get" /\ out.resp.status = 200 /\ out.resp.note = ""
  /\ SideReadable(sideFile)
  /\ \E i \in 1 .. Len(tables[out.resp.t].data) :
       LET row == tables[out.resp.t].data[i]
           side == sideFile.doc[out.resp.t]
       IN /\ "N" \in DOMAIN row.vals /\ row.vals["N"] = Null
          /\ row._id \in DOMAIN side /\ "N" \in DOMAIN side[row._id]
          /\ side[row._id]["N"] = Str("x")
          /\ out.resp.data[i].vals["N"] = Str("x")

\* C10: when the Side Store file is missing or not valid JSON, a table read
\* does not fail: it answers the stored rows exactly as the Row Store holds them.
C10_ReadSurvivesBrokenSideStore ==
  out.resp.op = "get" =>
    /\ out.resp.status = 200
    /\ ~SideReadable(sideFile) => out.resp.data = tables[out.resp.t].data

\* A read of a table with rows was answered while the Side Store file was broken.
C10_Witness ==
  /\ out.resp.op = "get" /\ out.resp.note = ""
  /\ ~SideReadable(sideFile)
  /\ Len(out.resp.data) >= 1

\* The values a request body supplies.
Supplied(body) == {k \in DOMAIN body.data : body.data[k] # Undefined}
\* Request q answers an add-row request with success on this step.
AddSucceeds(q) == proc[q].pc = "add_db" /\ out'.resp.op = "add" /\ out'.resp.status = 200

\* C11 as claimed: after an add the Row Store row holds the new id and only
\* values of non-dashboard-only columns, the Side Store entry holds exactly the
\* supplied dashboard-only values, and the merged row returns every supplied value.
C11_AddStoresOnlySheetColumns ==
  [][\A q \in Reqs : AddSucceeds(q) =>
        LET c == proc[q]
            cols == tables[c.t].columns
            stored == tables'[c.t].data[Len(tables'[c.t].data)]
            merged == out'.resp.data[Len(out'.resp.data)]
            side == sideFile'.doc[c.t]
        IN /\ stored._id = c.row._id /\ c.row._id \notin RowIds(tables[c.t].data)
           /\ DOMAIN stored.vals \subseteq SheetNames(cols)
           /\ \A k \in Supplied(c.body) \cap SheetNames(cols) : stored.vals[k] = c.body.data[k]
           /\ c.row._id \in DOMAIN side
           /\ DOMAIN side[c.row._id] = Supplied(c.body) \cap DashNames(cols)
           /\ \A k \in DOMAIN side[c.row._id] : side[c.row._id][k] = c.body.data[k]
           /\ \A k \in Supplied(c.body) : merged.vals[k] = c.body.data[k]]_vars

\* C11 as amended: after an add the Row Store row holds the new id, the
\* supplied value of every non-dashboard-only column and null for every other
\* column of the table (a dashboard-only column is a null placeholder there,
\* never its supplied value); the Side Store entry holds exactly the supplied
\* dashboard-only values; the merged row returns every supplied value.
C11_AddSplitsByColumnFlags ==
  [][\A q \in Reqs : AddSucceeds(q) =>
        LET c == proc[q]
            cols == tables[c.t].columns
            stored == tables'[c.t].data[Len(tables'[c.t].data)]
            merged == out'.resp.data[Len(out'.resp.data)]
            side == sideFile'.doc[c.t]
        IN /\ Len(tables'[c.t].data) = Len(tables[c.t].data) + 1
           /\ stored._id = c.row._id /\ c.row._id \notin RowIds(tables[c.t].data)
           /\ DOMAIN stored.vals = ColumnNames(cols)
           /\ \A k \in ColumnNames(cols) :
                stored.vals[k] = IF k \in Supplied(c.body) \cap SheetNames(cols)
                                   THEN c.body.data[k] ELSE Null
           /\ c.row._id \in DOMAIN side
           /\ DOMAIN side[c.row._id] = Supplied(c.body) \cap DashNames(cols)
           /\ \A k \in DOMAIN side[c.row._id] : side[c.row._id][k] = c.body.data[k]
           /\ merged._id = c.row._id
           /\ \A k \in Supplied(c.body) : merged.vals[k] = c.body.data[k]]_vars

\* An add with a value for A and one for N was answered: N is null in the Row
\* Store, "x" in the Side Store and "x" in the merged row.
C11_Witness ==
  /\ out.resp.op = "add" /\ out.resp.status = 200
  /\ LET data == tables[out.resp.t].data
         id == out.resp.row._id
     IN /\ Len(data) >= 1 /\ data[Len(data)]._id = id
        /\ data[Len(data)].vals["A"] = Num(7) /\ data[Len(data)].vals["N"] = Null
        /\ id \in DOMAIN sideFile.doc[out.resp.t]
        /\ sideFile.doc[out.resp.t][id] = [k \in {"N"} |-> Str("x")]
        /\ out.resp.data[Len(data)].vals["N"] = Str("x")

\* C12: for every update-row payload, the row written to the Row Store holds no
\* value for a column the table's schema marks dashboard-only.
C12_UpdateKeepsDashboardOutOfRowStore ==
  [][\A q \in Reqs : (proc[q].pc = "upd_db" /\ tables' # tables) =>
        LET c == proc[q]
            data == tables'[c.t].data
        IN \A i \in 1 .. Len(data) :
             data[i]._id = c.rowId =>
               \A k \in DashNames(tables'[c.t].columns) : ReadKey(data[i].vals, k) = Null]_vars

\* No handler is between two of its awaits.
AtRest == \A p \in Procs : proc[p].pc = "idle"
\* The Side Store entry of row `id` of table t ({} when there is none).
SideEntry(t, id) ==
  IF SideReadable(sideFile) /\ id \in DOMAIN sideFile.doc[t] THEN sideFile.doc[t][id]
  ELSE EmptyObj

\* C13: at rest, for every row of every table, the right-biased union of the
\* Row Store row and its Side Store entry has a key for every column of the table.
C13_NoColumnMissingAtRest ==
  AtRest =>
    \A t \in Tables :
      Exists(t) =>
        \A i \in 1 .. Len(tables[t].data) :
          LET row == tables[t].data[i] IN
          ColumnNames(tables[t].columns) \subseteq
            DOMAIN Spread(row.vals, SideEntry(t, row._id))

\* C14: in every reachable state the keys of every merged row are names of
\* columns of the table.
C14_RowKeysAreColumns ==
  \A t \in Tables :
    Exists(t) =>
      LET merged == MergeDashboardData(sideFile, t, tables[t].data) IN
      \A i \in 1 .. Len(merged) : DOMAIN merged[i].vals \subseteq ColumnNames(tables[t].columns)

\* The names of columns the schema of table t marks dashboard-only or does not know.
NotSheetBound(t, name) == name \notin SheetNames(tables[t].columns)

\* C15: no value of a dashboard-only column is sent to the spreadsheet: the
\* header row createGoogleSheet sets has sheet-bound column names only, a row
\* add leaves every cell under another header empty, and a row update leaves
\* every cell under another header as it was.
C15_DashboardOnlyNeverSent ==
  /\ [](\A t \in Tables : \A j \in 1 .. Len(HeaderValues(tables[t].columns)) :
          \E k \in 1 .. Len(tables[t].columns) :
             /\ tables[t].columns[k].name = HeaderValues(tables[t].columns)[j]
             /\ ~tables[t].columns[k].isDashboardOnly)
  /\ [][\A q \in Reqs : (proc[q].pc \in {"add_remote", "upd_rsave"} /\ remote' # remote) =>
          LET c == proc[q]
              s == c.doc.googleSheetId
              hdr == remote[s].headers
              old == remote[s].rows
              new == remote'[s].rows
          IN \A i \in 1 .. Len(new), j \in 1 .. Len(hdr) :
               NotSheetBound(c.t, hdr[j]) =>
                 new[i].cells[j] = IF i <= Len(old) THEN old[i].cells[j] ELSE ""]_vars

\* An update whose data carries a value for the dashboard-only column N was
\* pushed to a sheet that has a column N.
C15_Witness ==
  \E q \in Reqs :
    /\ proc[q].kind = "upd" /\ proc[q].pc = "pull_conn" /\ proc[q].remoteOk
    /\ "N" \in DOMAIN proc[q].sheetData
    /\ \E j \in 1 .. Len(remote["s1"].headers) : remote["s1"].headers[j] = "N"
    /\ \E i \in 1 .. Len(remote["s1"].rows) : remote["s1"].rows[i].cells[1] # ""

\* A remote call of the handler, or the pull it ran afterwards, has thrown.
RemoteHalfFailed(c) == ~c.remoteOk \/ ~c.pullOk

C17_FailureRecordedAndWarned ==
  /\ [](\A p \in Procs :
          (proc[p].pc # "idle" /\ ~InPull(proc[p]) /\ RemoteHalfFailed(proc[p])) =>
            tables[proc[p].t].syncError # "")
  /\ [][\A q \in Reqs :
          (/\ proc[q].pc \in {"add_db", "upd_db", "del_save"}
           /\ proc'[q].pc = "idle"
           /\ RemoteHalfFailed(proc[q])
           /\ out'.resp.status = 200) =>
            /\ out'.resp.note # ""
            /\ tables'[proc[q].t].syncError # ""]_vars

\* The names of the columns not marked dashboard-only that no header carries.
AbsentSheetBound(cols, hdr) ==
  { cols[k].name : k \in { k \in 1 .. Len(cols) : ~cols[k].isDashboardOnly } } \
    { hdr[j] : j \in 1 .. Len(hdr) }

\* C18: once the header row is loaded, the pull fails with the missing-columns
\* error exactly when some column not marked dashboard-only has no header; the
\* error lists exactly those names, never a dashboard-only column, and the
\* stored tables are left as they were.
C18_MissingColumnsError ==
  [][\A p \in Procs :
       (proc[p].pc = "pull_hdr" /\ PullStep(p)) =>
         LET absent == AbsentSheetBound(proc[p].doc.columns,
                                        remote[proc[p].doc.googleSheetId].headers)
             err == proc'[p].err
         IN /\ err.kind # "load" => (err.kind = "missing" <=> absent # {})
            /\ err.kind = "missing" =>
                 /\ err.names = absent
                 /\ ~proc'[p].pullOk /\ proc'[p].pc = proc[p].ret
                 /\ tables' = tables
                 /\ \A k \in 1 .. Len(proc[p].doc.columns) :
                      proc[p].doc.columns[k].isDashboardOnly =>
                        proc[p].doc.columns[k].name \notin err.names]_vars

\* A pull has failed for the missing sheet-bound column A, while the
\* dashboard-only column N, which no header carries either, is not listed.
C18_Witness ==
  \E p \in Procs :
    /\ AfterPull(p) /\ ~proc[p].pullOk
    /\ proc[p].err = PullError("missing", {"A"})
    /\ \E k \in 1 .. Len(proc[p].doc.columns) :
         proc[p].doc.columns[k].name = "N" /\ proc[p].doc.columns[k].isDashboardOnly
    /\ \A j \in 1 .. Len(remote["s1"].headers) : remote["s1"].headers[j] \notin {"A", "N"}

\* C19: a row delete takes the row's entry out of the Side Store and the row
\* out of the Row Store; on a linked table the remote row removed is the one at
\* the position the row had in the stored array; on a table without a
\* spreadsheet no remote step is taken and the spreadsheet is left alone.
C19_DeleteRowEverywhere ==
  /\ [](\A q \in Reqs :
          (proc[q].kind = "del" /\ tables[proc[q].t].googleSheetId = NoSheet) =>
            proc[q].pc = "del_save")
  /\ [][\A q \in Reqs :
          LET c == proc[q]
              d == proc'[q]
          IN
          /\ (c.pc = "idle" /\ d.kind = "del") =>
               /\ d.rowId \in RowIds(tables[d.t].data)
               /\ d.rowIndex = IndexOfId(tables[d.t].data, d.rowId)
               /\ d.rowId \notin DOMAIN sideFile'.doc[d.t]
               /\ \A r \in DOMAIN sideFile.doc[d.t] \ {d.rowId} :
                    /\ r \in DOMAIN sideFile'.doc[d.t]
                    /\ sideFile'.doc[d.t][r] = sideFile.doc[d.t][r]
          /\ (c.pc = "del_rdel" /\ remote' # remote) =>
               LET old == remote[c.doc.googleSheetId].rows
                   new == remote'[c.doc.googleSheetId].rows
               IN /\ Len(new) = Len(old) - 1
                  /\ \A i \in 1 .. Len(new) :
                       new[i] = IF i < c.rowIndex THEN old[i] ELSE old[i + 1]
          /\ (c.kind = "del" /\ c.doc.googleSheetId = NoSheet) => remote' = remote
          /\ (c.pc = "del_save" /\ d.pc = "idle") =>
               /\ c.rowId \notin RowIds(tables'[c.t].data)
               /\ out'.resp.status = 200
               /\ \A i \in 1 .. Len(out'.resp.data) : out'.resp.data[i]._id # c.rowId]_vars

\* The first of two stored rows was deleted on the linked table: its Side
\* Store entry is gone, the remote row at its position was removed and one
\* remote row is left.
C19_Witness ==
  \E q \in Reqs :
    /\ proc[q].kind = "del" /\ proc[q].pc = "pull_conn" /\ proc[q].remoteOk
    /\ proc[q].t = "t1" /\ proc[q].rowIndex = 1
    /\ Len(proc[q].doc.data) = 1
    /\ proc[q].rowId \notin DOMAIN sideFile.doc["t1"]
    /\ Len(remote["s1"].rows) = 1
    /\ remote["s1"].rows[1].rec = proc[q].doc.data[1].rec

\* C20: at rest every Side Store entry belongs to a row of an existing table.
C20_NoOrphanSideEntries ==
  AtRest =>
    \A t \in Tables :
      \A r \in DOMAIN sideFile.doc[t] :
        Exists(t) /\ r \in RowIds(tables[t].data)

\* The positions of a handler at which it is calling, or about to call, the remote.
RemotePcs == {"pull_conn", "pull_hdr", "pull_rows", "pull_save", "add_conn", "add_remote",
              "upd_conn", "upd_hdr", "upd_rows", "upd_rsave", "del_conn", "del_rows", "del_rdel"}

\* Table t is stored without a spreadsheet id.
LocalOnly(t) == Exists(t) /\ tables[t].googleSheetId = NoSheet

\* C21: a table stored without a spreadsheet id is local-only: no request
\* started on it takes a remote step, no sweep starts a pull of it, and no
\* step of a pull changes its stored rows.
C21_LocalOnlyNeverSynced ==
  [][\A p \in Procs :
       /\ (proc[p].pc \in {"idle", "sw_find", "sw_next"} /\ proc'[p].pc # "idle"
           /\ proc'[p].pc # proc[p].pc /\ proc'[p].t \in Tables /\ LocalOnly(proc'[p].t)) =>
            proc'[p].pc \notin RemotePcs
       /\ (InPull(proc[p]) /\ PullStep(p) /\ LocalOnly(proc[p].t)) =>
            tables'[proc[p].t].data = tables[proc[p].t].data]_vars

\* The tables still to be pulled by the loop of a sweep, in order.
QueueTables(c) == [i \in 1 .. Len(c.queue) |-> c.queue[i].t]

\* C22: a pull that throws inside a sweep does not end the sweep. The loop
\* starts with every linked table, in order; whether the pull of a table
\* returned or threw, the loop goes on with the next table of its list; no
\* other step takes a table off the list; and the sweep ends, clearing the
\* in-flight flag, only when the list is empty.
C22_SweepSurvivesPullFailure ==
  [][\A k \in Ticks :
       LET c == proc[k]
           d == proc'[k]
       IN
       /\ (c.pc = "sw_find" /\ d.pc # "sw_find" /\ d.pc # "idle") =>
            /\ << d.t >> \o QueueTables(d) =
                 SelectSeq(TableOrder, LAMBDA t : tables[t].googleSheetId # NoSheet)
            /\ d.pc = "pull_conn"
       /\ (c.pc = "sw_next" /\ d.pc # c.pc) =>
            IF c.queue # << >>
              THEN /\ d.pc = "pull_conn" /\ d.t = c.queue[1].t
                   /\ QueueTables(d) = Tail(QueueTables(c))
                   /\ isSyncing' /\ isSyncing
              ELSE d.pc = "idle" /\ ~isSyncing'
       /\ (c.kind = "sweep" /\ InPull(c)) =>
            /\ QueueTables(d) = QueueTables(c)
            /\ d.t = c.t
            /\ InPull(d) \/ d.pc = "sw_next"
            /\ isSyncing' /\ isSyncing]_vars

\* The pull of the first table threw, and the sweep went on to pull the second
\* table, whose pull returned with the rows of the spreadsheet saved.
C22_Witness ==
  \E k \in Ticks :
    /\ proc[k].pc = "sw_next" /\ proc[k].t = "t2" /\ proc[k].pullOk
    /\ proc[k].failed = {"t1"}
    /\ tables["t2"].data # << >>
    /\ tables["t1"].data = << >>

\* C23: a sweep never hangs: whenever a sweep is in flight it ends, so that a
\* later tick can start a new one.
C23_SweepNeverHangs == isSyncing ~> ~isSyncing

\* The events of the last step that go to the channel of table t under `name`.
Emitted(o, name, t) == { i \in 1 .. Len(o.events) : o.events[i].name = name /\ o.events[i].t = t }

\* C24: the step of a pull that replaces the stored rows of a table stamps
\* lastSynced and emits tableUpdated to the table's channel; a pull that finds
\* the rows unchanged returns without emitting anything.
C24_PullStampsAndNotifies ==
  [][\A p \in Procs :
       LET c == proc[p] IN
       /\ (c.pc = "pull_save" /\ PullStep(p)) =>
            /\ tables'[c.t].data = [i \in 1 .. Len(c.doc.data) |-> BsonRow(c.doc.data[i])]
            /\ tables'[c.t].lastSynced = c.doc.lastSynced
            /\ c.doc.lastSynced = clock
            /\ Emitted(out', "tableUpdated", c.t) # {}
       /\ (c.pc = "pull_rows" /\ PullStep(p) /\ proc'[p].pc = c.ret /\ proc'[p].pullOk) =>
            /\ out'.events = << >>
            /\ tables' = tables]_vars

\* C25: the step at which a pull throws emits syncError for the table to the
\* table's channel.
C25_PullFailureEmitsSyncError ==
  [][\A p \in Procs :
       (PullStep(p) /\ ~proc'[p].pullOk /\ proc'[p].pc = proc[p].ret) =>
         Emitted(out', "syncError", proc[p].t) # {}]_vars

\* C26: an event for table t reaches a client only while the client is
\* connected and in the room of t; a client gets into the room of t only by
\* its own joinTable for t, is out of it after its leaveTable for t, and is
\* out of every room after it disconnects.
C26_DeliveryOnlyToJoinedClients ==
  /\ [](\A c \in Clients :
          /\ ~sockets[c].connected => sockets[c].rooms = {}
          /\ \A i \in 1 .. Len(Delivered(c, out)) :
               sockets[c].connected /\ Delivered(c, out)[i].t \in sockets[c].rooms)
  /\ [][\A c \in Clients :
          /\ \A t \in sockets'[c].rooms \ sockets[c].rooms :
               out'.resp.op = "joinTable" /\ out'.resp.t = t /\ out'.resp.note = c
          /\ (out'.resp.op = "leaveTable" /\ out'.resp.status = 200 /\ out'.resp.note = c) =>
               out'.resp.t \notin sockets'[c].rooms
          /\ (out'.resp.op = "disconnect" /\ out'.resp.note = c) => sockets'[c] = NoSocket
          /\ (out'.events # << >>) => sockets' = sockets]_vars

\* A row mutation of table t2 has just emitted its event: the client in the
\* room of t2 gets it, the connected client that is only in the room of t1
\* does not.
C26_Witness ==
  /\ \E i \in 1 .. Len(out.events) : out.events[i].t = "t2"
  /\ sockets["c1"] = Socket(TRUE, {"t2"})
  /\ sockets["c2"] = Socket(TRUE, {"t1"})
  /\ Len(Delivered("c1", out)) = 1
  /\ Delivered("c2", out) = << >>

\* C27: when a row add, update or delete has been answered 200, the update
\* handler of every connected client in the table's room has been run with
\* an event carrying the table id and the merged rows as they are stored.
C27_RowMutationReachesHandlers ==
  \A c \in Clients :
    (/\ out.resp.op \in {"add", "upd", "del"} /\ out.resp.status = 200
     /\ sockets[c].connected /\ out.resp.t \in sockets[c].rooms) =>
      \E i \in 1 .. Len(OnTableUpdate(c, out)) :
        /\ OnTableUpdate(c, out)[i].t = out.resp.t
        /\ OnTableUpdate(c, out)[i].data =
             MergeDashboardData(sideFile, out.resp.t, tables[out.resp.t].data)

\* C28: no two pulls of the same table are in flight at the same time.
C28_OnePullPerTable ==
  \A p, q \in Procs :
    (p # q /\ InPull(proc[p]) /\ InPull(proc[q])) => proc[p].t # proc[q].t

\* The Side Store entry of (t, r) in file, as a sequence of at most one element.
EntryOf(file, t, r) == IF r \in DOMAIN file.doc[t] THEN << file.doc[t][r] >> ELSE << >>

\* C29: no Side Store write loses another one. Whatever the interleaving of
\* the requests, a step changes the entry of a (table, row) key only when it
\* is the save or the delete of a request for that very key, every other
\* entry is carried over from the file as it was just before the step, and
\* the entry written is the one the request asked for.
C29_SideStoreWritesKeepOthers ==
  [][\A t \in Tables, r \in 1 .. MaxId :
       EntryOf(sideFile', t, r) # EntryOf(sideFile, t, r) =>
         \E q \in Procs :
           LET c == proc[q]
               d == proc'[q]
           IN
           \/ /\ c.pc = "add_db" /\ d.pc = "idle" /\ c.t = t /\ c.row._id = r
              /\ EntryOf(sideFile', t, r) = << JsonObj(c.dashData) >>
           \/ /\ c.pc = "upd_db" /\ d.pc = "idle" /\ c.t = t /\ c.rowId = r
              /\ EntryOf(sideFile', t, r) = << JsonObj(c.dashData) >>
           \/ /\ c.pc = "idle" /\ d.kind = "del" /\ d.t = t /\ d.rowId = r
              /\ EntryOf(sideFile', t, r) = << >>]_vars

\* While another request is in flight between its read and its write, an
\* update has saved the entry of row 1, and the entry of row 2, written by an
\* earlier add, is still there.
C29_Witness ==
  /\ out.resp.op = "upd" /\ out.resp.status = 200 /\ out.resp.row._id = 1
  /\ EntryOf(sideFile, "t2", 1) = << [k \in {"N"} |-> Str("y")] >>
  /\ EntryOf(sideFile, "t2", 2) = << [k \in {"N"} |-> Str("x")] >>
  /\ \E q \in TwoReqs : proc[q].pc \in {"add_db", "upd_db", "del_save"}

\* C30: a row update replaces the stored row by id, whole, and the last
\* commit wins. The row a request writes is built when the request reads the
\* table (the row as read, overlaid with the values the request sends for the
\* Row Store) and no other step changes it; the commit puts exactly that row
\* in the place of the stored row with the same id, whatever other requests
\* wrote there meanwhile, and leaves every other row as it is.
C30_ReplaceByIdLastWriteWins ==
  [][\A q \in Procs :
       LET c == proc[q]
           d == proc'[q]
       IN
       /\ (c.pc = "idle" /\ d.kind = "upd") =>
            /\ d.rowIndex = IndexOfId(tables[d.t].data, d.rowId) /\ d.rowIndex # 0
            /\ d.row._id = d.rowId
            /\ d.row.vals = Spread(tables[d.t].data[d.rowIndex].vals, d.sheetData)
       /\ (c.pc = "upd_db" /\ d.pc = "upd_db") => d.row = c.row
       /\ (c.pc = "upd_db" /\ d.pc = "idle" /\ c.rowId \in RowIds(tables[c.t].data)) =>
            /\ Len(tables'[c.t].data) = Len(tables[c.t].data)
            /\ \A i \in 1 .. Len(tables[c.t].data) :
                 tables'[c.t].data[i] =
                   IF tables[c.t].data[i]._id = c.rowId THEN BsonRow(c.row)
                   ELSE tables[c.t].data[i]
            /\ \A t \in Tables \ {c.t} : tables'[t] = tables[t]]_vars

\* Two updates of row 1 of the table without a spreadsheet interleave: one has
\* just committed, the other read the row before that commit and has not
\* committed yet, and the row it is about to write differs from the stored one.
C30_Witness ==
  /\ out.resp.op = "upd" /\ out.resp.status = 200 /\ out.resp.t = "t2"
  /\ out.resp.row._id = 1
  /\ \E q \in TwoReqs :
       /\ proc[q].pc = "upd_db" /\ proc[q].t = "t2" /\ proc[q].rowId = 1
       /\ proc[q].doc.googleSheetId = NoSheet
       /\ IndexOfId(tables["t2"].data, 1) = proc[q].rowIndex
       /\ proc[q].doc.data[proc[q].rowIndex] # tables["t2"].data[proc[q].rowIndex]
       /\ BsonRow(proc[q].row) # tables["t2"].data[proc[q].rowIndex]

\* C31: updateGoogleSheetRow with a row index below the first or beyond the
\* last remote row throws and writes no remote cell; with an index in range
\* it writes only the remote row at that index, and in it only the cells
\* under sheet-bound columns that the supplied data names.
C31_RowIndexBoundsAndFrame ==
  [][\A q \in Reqs :
       LET c == proc[q]
           s == c.doc.googleSheetId
           old == remote[s].rows
           new == remote'[s].rows
       IN
       /\ (c.pc = "upd_rows" /\ RowIndexOutOfBounds(c.rowIndex, Len(old))) =>
            /\ remote' = remote
            /\ proc'[q].pc = "upd_db" /\ ~proc'[q].remoteOk
       /\ (c.pc = "upd_rows" /\ proc'[q].pc = "upd_rsave") =>
            /\ remote' = remote
            /\ c.rowIndex \in 1 .. Len(old)
       /\ (c.pc = "upd_rsave" /\ remote' # remote) =>
            /\ remote'[s].headers = remote[s].headers
            /\ Len(new) = Len(old)
            /\ \A i \in 1 .. Len(old) :
                 /\ i # c.rowIndex => new[i] = old[i]
                 /\ \A j \in 1 .. Len(old[i].cells) :
                      new[i].cells[j] # old[i].cells[j] =>
                        /\ j <= Len(c.hdr)
                        /\ c.hdr[j] \in SheetNames(c.doc.columns)
                        /\ c.hdr[j] \in DOMAIN c.sheetData
       /\ (c.kind = "upd" /\ c.pc \in {"upd_conn", "upd_hdr", "upd_db"}) =>
            remote' = remote]_vars

\* An update of a row beyond the last remote row has been refused, on a sheet
\* in which an earlier update of a row in range wrote the cell "8".
C31_Witness ==
  \E q \in Reqs :
    /\ proc[q].kind = "upd" /\ proc[q].pc = "upd_db" /\ ~proc[q].remoteOk
    /\ proc[q].hdr # << >>
    /\ RowIndexOutOfBounds(proc[q].rowIndex, Len(remote["s1"].rows))
    /\ \E i \in 1 .. Len(remote["s1"].rows) : remote["s1"].rows[i].cells[1] = "8"

\* C32: adding a sheet-bound column to a linked table is never failed by the
\* remote: when the pull that follows throws, the request is answered 200
\* with a syncError note and the column it added is stored dashboard-only; so
\* when add-column returns, the added column is dashboard-only or its name is
\* in the header row the pull has read.
C32_AddColumnDegradesToDashboardOnly ==
  [][\A q \in Reqs :
       LET c == proc[q]
           cols == tables'[c.t].columns
           added == cols[Len(cols)]
       IN
       (c.kind = "col" /\ c.pc \in {"col_save", "col_after", "col_fix"}
          /\ proc'[q].pc = "idle") =>
         /\ out'.resp.op = "col" /\ out'.resp.status = 200
         /\ c.pc = "col_fix" => (out'.resp.note = "syncError" /\ added.isDashboardOnly)
         /\ added.isDashboardOnly \/ added.name \in SeqToSet(c.hdr)]_vars

\* The answers of the routes to a request for a table that is not there.
NotFoundAnswers(t) ==
  {Failure(op, 404, t, "Table not found") : op \in {"add", "upd", "del", "get", "deltable"}}

\* C33: a row or table request sent by a user who is not the table's owner
\* is answered exactly as a request for a table that does not exist (404,
\* table not found), and its step changes nothing in the Row Store, the
\* Side Store or the spreadsheet and starts no handler.
C33_OwnerScoped ==
  [][\A q \in Reqs, t \in Tables, u \in Users :
       (proc[q].pc = "idle" /\ (RowRequest(q, t, u) \/ TableRequest(q, t, u))
          /\ (u # UserIdOf[t] \/ ~Exists(t))) =>
         /\ out' \in NotFoundAnswers(t)
         /\ UNCHANGED << tables, sideFile, remote, proc >>]_vars

\* A request for a table that exists, holds a row and belongs to somebody
\* else has been answered 404.
C33_Witness ==
  /\ out.resp.status = 404 /\ out.resp.note = "Table not found"
  /\ Exists(out.resp.t)
  /\ Len(tables[out.resp.t].data) > 0

\* The pull the handler called has returned without an error.
Validated(c) == c.ret # "none" /\ ~InPull(c) /\ c.pullOk

\* C34: a failing spreadsheet never changes what is stored: the handler that
\* links a table to a spreadsheet or adds a column writes the table's link
\* and columns only after its pull of the spreadsheet has succeeded.
C34_LocalWritesAfterValidation ==
  [][\A q \in Reqs :
       LET c == proc[q] IN
       (/\ c.kind \in {"sheet", "col"}
        /\ \/ /\ tables'[c.t].googleSheetId # tables[c.t].googleSheetId
              /\ tables'[c.t].googleSheetId # NoSheet
           \/ /\ tables'[c.t].columns # tables[c.t].columns
              /\ c.doc.googleSheetId # NoSheet
              /\ ~c.doc.columns[Len(c.doc.columns)].isDashboardOnly)
         => Validated(c)]_vars

Linked(t) == Exists(t) /\ tables[t].googleSheetId # NoSheet

\* The header row of the table's spreadsheet has every sheet-bound column.
ValidHeaders(t) ==
  MissingColumns(tables[t].columns, remote[tables[t].googleSheetId].headers) = {}

\* The stored rows of the table are, column by sheet-bound column, the
\* type-coerced rows of its spreadsheet.
Converged(t) ==
  LET cols == tables[t].columns
      data == tables[t].data
      hdr == remote[tables[t].googleSheetId].headers
      rrows == remote[tables[t].googleSheetId].rows
  IN /\ Len(data) = Len(rrows)
     /\ \A i \in 1 .. Len(rrows), j \in 1 .. Len(cols) :
          ~cols[j].isDashboardOnly =>
            /\ cols[j].name \in DOMAIN data[i].vals
            /\ data[i].vals[cols[j].name] =
                 CoerceCell(cols[j].type, RowGet(hdr, rrows[i], cols[j].name))

C36_FormatCoerceRoundTrip ==
  /\ \A n \in NumRange : CoerceCell("number", FormatCell("number", Num(n))) = Num(n)
  /\ CoerceCell("number", FormatCell("number", Null)) = Null
  /\ \A b \in BOOLEAN : CoerceCell("boolean", FormatCell("boolean", Bool(b))) = Bool(b)
  /\ \A t \in Tables : \A i \in 1 .. Len(tables[t].data), j \in 1 .. Len(tables[t].columns) :
       LET col == tables[t].columns[j]
           v == ReadKey(tables[t].data[i].vals, col.name)
       IN (~col.isDashboardOnly /\ col.type \in {"number", "boolean"}) =>
            CoerceCell(col.type, FormatCell(col.type, v)) = v
  /\ \A cell \in {"", RowGet(<< "A" >>, RemoteRow(0, << >>), "A"),
                  RowGet(<< >>, RemoteRow(0, << "7" >>), "A")} :
       /\ CoerceCell("number", cell) = Null
       /\ CoerceCell("boolean", cell) = Bool(FALSE)
       /\ CoerceCell("text", cell) = Str("")

\* An update sent the number 8, the spreadsheet got the cell "8", and the
\* pull that followed stored the number 8.
C36_Witness ==
  \E q \in Reqs :
    /\ proc[q].kind = "upd" /\ proc[q].pc = "upd_db" /\ proc[q].pullOk /\ proc[q].hasChanged
    /\ Get(proc[q].body.data, "A") = Num(8)
    /\ \E i \in 1 .. Len(tables["t1"].data) :
         /\ i <= Len(remote["s1"].rows)
         /\ remote["s1"].rows[i].cells[1] = "8"
         /\ ReadKey(tables["t1"].data[i].vals, "A") = Num(8)

\* C37: the column names of a table are unique: no two columns of a stored
\* table have the same name.
C37_ColumnNamesUnique ==
  \A t \in Tables : \A i, j \in 1 .. Len(tables[t].columns) :
    i # j => tables[t].columns[i].name # tables[t].columns[j].name

\* Row Store and spreadsheet hold the same records in the same order.
Aligned(t) ==
  /\ Len(tables[t].data) = Len(remote[tables[t].googleSheetId].rows)
  /\ \A i \in 1 .. Len(tables[t].data) :
       tables[t].data[i].rec = remote[tables[t].googleSheetId].rows[i].rec

\* C38: a row added to a linked table while a pull of that table is in
\* flight survives the pull's save: when the save comes after the row was
\* appended and pushed, the Row Store still holds every row under the id its
\* add returned, and the merged read still shows its dashboard-only values.
C38_AddedRowSurvivesPullInFlight ==
  [][\A p \in Procs :
       (proc[p].pc = "pull_save" /\ proc'[p].pc # "pull_save"
          /\ Linked(proc[p].t) /\ Aligned(proc[p].t)) =>
         LET t == proc[p].t
             before == MergeDashboardData(sideFile, t, tables[t].data)
             after == MergeDashboardData(sideFile', t, tables'[t].data)
         IN \A i \in 1 .. Len(before) :
              \E j \in 1 .. Len(after) :
                /\ after[j]._id = before[i]._id
                /\ \A name \in DashNames(tables[t].columns) :
                     ReadKey(after[j].vals, name) = ReadKey(before[i].vals, name)]_vars

\* C39: the in-flight flag is released on every path by which a sweep ends:
\* the flag is set exactly while a sweep is running, and when every call of a
\* sweep to the database and to the spreadsheet returns, the sweep ends with
\* the flag cleared and later ticks start new sweeps again and again.
C39_FlagReleasedOnEveryPath ==
  /\ [](isSyncing <=> SweepsInFlight # {})
  /\ [](isSyncing => <>(~isSyncing /\ SweepsInFlight = {}))
  /\ []<>(out.tick = "started")

\* A tick starts a new sweep after the sweep before it has saved the rows of
\* the linked table and ended.
C39_Witness ==
  /\ out.tick = "started" /\ isSyncing
  /\ tables["t1"].lastSynced > 0
  /\ \E k \in Ticks : proc[k].pc = "sw_find"

\* C40: saveDashboardData(t, r, d) makes d the whole Side Store entry of
\* (t, r), so that keys the entry had and d has not are gone, and
\* deleteDashboardData(t, r) removes that entry; both leave the entry of
\* every other (table, row) key as it was, and deleting an entry that is not
\* there leaves the content of the file as it was.
C40_SideStoreSaveAndDeleteFrame ==
  [][LET t == out'.resp.t
         r == out'.resp.row._id
         d == out'.resp.row.vals
         others == \A u \in Tables, s \in 1 .. MaxId :
                     << u, s >> # << t, r >> => EntryOf(sideFile', u, s) = EntryOf(sideFile, u, s)
     IN
     /\ (out'.resp.op = "saveDashboardData" /\ SideReadable(sideFile)) =>
          /\ EntryOf(sideFile', t, r) = << JsonObj(d) >>
          /\ DOMAIN sideFile'.doc[t][r] \subseteq DOMAIN d
          /\ others
     /\ (out'.resp.op = "deleteDashboardData" /\ SideReadable(sideFile)) =>
          /\ EntryOf(sideFile', t, r) = << >>
          /\ others
          /\ EntryOf(sideFile, t, r) = << >> => sideFile' = sideFile
     /\ (out'.resp.op \in {"saveDashboardData", "deleteDashboardData"}
           /\ ~SideReadable(sideFile)) => sideFile' = sideFile]_vars

\* saveDashboardData has just written an entry with the key M alone, while an
\* entry of another row of the table and an entry of the other table, each
\* with the key N, are in the file.
C40_Witness ==
  /\ out.resp.op = "saveDashboardData" /\ out.resp.t = "t1" /\ out.resp.row._id = 1
  /\ EntryOf(sideFile, "t1", 1) = << [k \in {"M"} |-> Str("z")] >>
  /\ EntryOf(sideFile, "t1", 2) = << [k \in {"N"} |-> Str("x")] >>
  /\ EntryOf(sideFile, "t2", 1) = << [k \in {"N", "M"} |-> IF k = "N" THEN Str("y") ELSE Str("z")] >>

====
